---- MODULE Spec2Model ----
(***************************************************************************)
(* FormGuard: the validation orchestration engine (FormGuard class of      *)
(* src/src/dom-manager.js), the validator registry cache                   *)
(* (src/unnamed/part_005) and the event loop they run on.                  *)
(*                                                                         *)
(* The JavaScript event loop is modelled explicitly: a script (an event    *)
(* handler or host code) runs synchronously, every await resumes in a      *)
(* microtask taken from a FIFO queue, and a new macrotask (a DOM event, a  *)
(* network answer, a timer) starts only when the microtask queue is empty. *)
(***************************************************************************)
EXTENDS Naturals, Sequences, FiniteSets, TLC

VARIABLES
  options,        \* instance options read by the engine (useNativeValidation)
  fieldRegistry,  \* DOMManager.fieldRegistry: field -> configuration or NoConfig
  attrs,          \* native constraint attribute of each field element
  value,          \* field.value of each text field
  checked,        \* field.checked of each checkbox
  validationState,        \* FormGuard.validationState (insertion-ordered Map)
  asyncValidationPromises,\* FormGuard.asyncValidationPromises (insertion-ordered Map)
  cache,          \* ValidatorRegistry.cache (insertion-ordered Map)
  now,            \* Date.now(), in minutes
  lastSweep,      \* time the cleanup interval last fired
  calls,          \* the validateField invocations, one record each
  queue,          \* the microtask queue
  syncOpen,       \* TRUE while the script that issued the last call still runs
  epoch,          \* number of cache clears so far (history)
  form,           \* the whole-form / group passes (validate, validateAllGroups)
  isDestroyed,    \* FormGuard.isDestroyed
  instances,      \* FormGuard.instances, and which instances are not destroyed
  dom,            \* DOMManager state and the visible state of the fields
  events,         \* the formguard:* events dispatched so far, per field
  submit,         \* the submit event being handled, and what became of it
  timers,         \* the debounce timers of the fields
  tree            \* the form's tree: its fields, their attributes, the observer

(* what the host page owns beside the engine *)
hostVars == <<isDestroyed, instances, submit, timers, tree>>

(* what a validation outcome is shown through *)
viewVars == <<dom, events>>

vars == <<options, fieldRegistry, attrs, value, checked, validationState,
          asyncValidationPromises, cache, now, lastSweep, calls, queue,
          syncOpen, epoch, form, isDestroyed, instances, dom, events, submit, timers, tree>>

----------------------------------------------------------------------------
(* Bounds of the model *)

MaxCalls == 2
MaxResets == 1
MaxEvents == 3
MaxMutations == 2
MaxContainers == 2
MaxCacheKeys == 102
MaxInstances == 3
MaxLen == 4

(* Program constants, in minutes *)

CacheTTL == 5
AsyncMaxAge == 1
StateCleanupInterval == 5
MaxCacheEntries == 100
MaxAsyncPromises == 100
MaxStateEntries == 1000

(* options.debounce (300 ms), in ticks of the clock of the specification of
   the input listeners, where a tick is 150 ms *)
Debounce == 2
ThrottleDelay == 2

(* The clock of the model stops one minute past the cache's time to live *)
MaxTime == CacheTTL + 1

----------------------------------------------------------------------------
(* The form of the model: two text fields, a checkbox *)

TextFields == {"f1", "f2"}
CheckFields == {"cb"}
Fields == TextFields \cup CheckFields
Values == {"", "bad", "ok"}
Calls == 1..MaxCalls

NoConfig == [registered |-> FALSE]
NoGroup == ""
NoCond == <<>>

(* field.name || field.id, the text the engine keys a field by *)
FieldName(f) == tree.name[f]

(* data-validate rule names of the model and the validator behind each.
   required, email: synchronous built-ins. unique: asynchronous built-in of
   three parameters. lookup: a custom asynchronous validator of four
   parameters (it receives the abort signal). *)
RuleNames == {"required", "email", "unique", "remote", "lookup", "thrower"}

(* this.validatorRegistry: the built-ins and the validators registered on
   the instance *)
InstanceValidators == RuleNames

(* FormGuard.globalValidators beyond the built-ins: the page has registered a
   global validator blocklist, and a global validator under the name email *)
GlobalValidators == {"email", "blocklist"}

validatorGlobalFirst(r) ==
  IF r \in GlobalValidators THEN <<"global", r>>
  ELSE IF r \in InstanceValidators THEN <<"instance", r>>
  ELSE <<>>

(* this.validatorRegistry.get(rule.name) || FormGuard.globalValidators.get(rule.name):
   the function found and the registry it was found in, <<>> if none *)
validator(r) ==
  IF r \in InstanceValidators THEN <<"instance", r>>
  ELSE IF r \in GlobalValidators THEN <<"global", r>>
  ELSE <<>>

(* if (!validator) *)
HasValidator(r) == validator(r) # <<>>

(* what the validators registered globally answer for value v *)
GlobalResult(r, v) ==
  CASE r = "email"     -> IF v = "ok" THEN "Use your company address" ELSE "true"
    [] r = "blocklist" -> IF v = "bad" THEN "This value is not allowed" ELSE "true"
    [] OTHER           -> "true"

(* isAsyncValidator(validator) *)
isAsyncValidator(r) == r \in {"unique", "remote", "lookup"}

(* validator.length > 3: the validator accepts the signal *)
AcceptsSignal(r) == r = "lookup"

(* What the validator behind rule r answers for value v. "true" is the
   JavaScript value true, "false" the value false, anything else a message. *)
ValidatorResult(r, v) ==
  CASE validator(r) = <<"global", r>> -> GlobalResult(r, v)
    [] r = "required" -> IF v = "" THEN "This field is required" ELSE "true"
    [] r = "email"    -> IF v = "bad" THEN "Please enter a valid email address" ELSE "true"
    [] r = "unique"   -> IF v = "bad" THEN "taken" ELSE "true"
    [] r = "remote"   -> IF v = "bad" THEN "Invalid value" ELSE "true"
    [] r = "lookup"   -> IF v = "bad" THEN "false" ELSE "true"
    [] OTHER          -> "true"

(* thrower: a custom synchronous validator that throws on the value "bad" *)
Throws(r, v) == r = "thrower" /\ v = "bad"

(* remote/unique: if (!value) return true, before any await: the promise the
   validator returns is already resolved when the call returns *)
ResolvesAtOnce(r, v) == r \in {"unique", "remote"} /\ v = ""

(* What the endpoint of remote and unique may do with a request: the request
   fails (fetch rejects), the status is not 2xx, the body is not JSON, the
   body is the JSON null, an object without any of the expected properties,
   or an object that says the value is good or that it is not *)
Responses ==
  {"networkError", "http500", "badJson", "null", "object", "good", "notGood"}

(* the statement of the try block that throws on the response, "" if none:
   await makeRequest, the test of response.ok, await response.json(), or
   the first property read on null *)
ThrowsAt(resp) ==
  CASE resp = "networkError" -> "makeRequest"
    [] resp = "http500"      -> "ok"
    [] resp = "badJson"      -> "json"
    [] resp = "null"         -> "property"
    [] OTHER                 -> ""

remoteRethrows(v, resp) ==
  IF v = "" THEN "true"
  ELSE IF ThrowsAt(resp) # "" THEN "Validation error: failure"
  ELSE IF resp = "notGood" THEN "Invalid value" ELSE "true"

(* remote(value, params, field), on the response its request gets: every
   throw of the try block is caught and answered with true *)
remote(v, resp) ==
  IF v = "" THEN "true"
  ELSE IF ThrowsAt(resp) # "" THEN "true"
  ELSE CASE resp = "good"    -> "true"
         [] resp = "notGood" -> "Invalid value"
         [] OTHER            -> "true"

(* unique(value, params, field), on the response its request gets: as remote,
   but a body without an expected property counts as taken when truthy *)
unique(v, resp) ==
  IF v = "" THEN "true"
  ELSE IF ThrowsAt(resp) # "" THEN "true"
  ELSE CASE resp = "good"    -> "true"
         [] resp = "notGood" -> "This value is already taken"
         [] OTHER            -> "This value is already taken"

(* i18n.t(rule.name) *)
I18nMessage(r) ==
  CASE r = "required" -> "This field is required"
    [] r = "email"    -> "Please enter a valid email address"
    [] r = "unique"   -> "This value is already taken"
    [] OTHER          -> "Please enter a valid value"

(* the message of key r in the language pack lang *)
getMessage(r, lang) ==
  IF lang = "es"
    THEN CASE r = "required" -> "Este campo es obligatorio"
           [] r = "email"    -> "Por favor ingrese una dirección de email válida"
           [] OTHER          -> ""
    ELSE I18nMessage(r)

(* i18n.currentLanguage: options.i18n.language of the instance *)
currentLanguage ==
  IF "language" \in DOMAIN options THEN options.language ELSE "en"

(* i18n.t(key): the current language, then the fallback language *)
I18nT(r) ==
  IF getMessage(r, currentLanguage) # "" THEN getMessage(r, currentLanguage)
  ELSE getMessage(r, "en")

(* getErrorMessage: a string result is the message, any other failing result
   is resolved through the message tables *)
getErrorMessage(r, result) ==
  IF result = "false" THEN I18nT(r) ELSE result

AbortMessage == "Validation error: AbortError"
ThrownMessage == "Validation error: failure"

----------------------------------------------------------------------------
(* JavaScript Map: insertion-ordered, one entry per key.  A map is a
   sequence of records with a key field, in insertion order. *)

MapKeys(m) == {m[n].key : n \in 1..Len(m)}

MapHas(m, k) == k \in MapKeys(m)

MapGet(m, k) == m[CHOOSE n \in 1..Len(m) : m[n].key = k]

(* Map.prototype.delete *)
MapDelete(m, k) == SelectSeq(m, LAMBDA e : e.key # k)

(* Map.prototype.set: an existing key keeps its position and takes the new
   value, a new key is appended *)
MapSet(m, e) ==
  IF MapHas(m, e.key)
    THEN [n \in 1..Len(m) |-> IF m[n].key = e.key THEN e ELSE m[n]]
    ELSE Append(m, e)

(* entries.slice(0, n) of Array.from(map.entries()) *)
Oldest(m, n) == SubSeq(m, 1, n)

----------------------------------------------------------------------------
(* ValidatorRegistry cache *)

(* getCacheKey: `${validatorName}:${value}:${params || ''}`; the rules of the
   model carry no parameters *)
getCacheKey(r, v) == <<r, v, "">>

CacheFreshAlways(ch, k, t) == MapHas(ch, k)

(* getFromCache: the entry is served while younger than the time to live *)
CacheFresh(ch, k, t) == MapHas(ch, k) /\ t - MapGet(ch, k).timestamp < CacheTTL

(* getFromCache also drops the entry it does not serve *)
CacheAfterGet(ch, k, t) == IF CacheFresh(ch, k, t) THEN ch ELSE MapDelete(ch, k)

setCacheNoEviction(ch, k, result, t) ==
  MapSet(ch, [key |-> k, result |-> result, timestamp |-> t])

(* setCache: insert, then evict the first key once over capacity *)
setCache(ch, k, result, t) ==
  LET put == MapSet(ch, [key |-> k, result |-> result, timestamp |-> t])
  IN IF Len(put) > MaxCacheEntries THEN Tail(put) ELSE put

----------------------------------------------------------------------------
(* The DOM the engine reads *)

(* getFieldValue: checked for a checkbox, value otherwise *)
BoolString(b) == IF b THEN "true" ELSE "false"

getFieldValue(f, val, chk) == IF f \in CheckFields THEN BoolString(chk[f]) ELSE val[f]

(* field.validity of the browser: a required attribute with an empty value,
   a type=email field with a malformed value *)
Validity(f, at, val) ==
  CASE f \in TextFields /\ at[f] = "required" /\ val[f] = ""  -> "valueMissing"
    [] f \in TextFields /\ at[f] = "email" /\ val[f] = "bad"  -> "typeMismatch"
    [] OTHER -> "valid"

(* getNativeValidationMessage, no data-error-* attribute set *)
getNativeValidationMessage(validity) ==
  CASE validity = "valueMissing" -> "This field is required"
    [] validity = "typeMismatch" -> "browser: type mismatch"
    [] OTHER -> "Please enter a valid value"

checkNativeValidityNever(f, at, val) == TRUE

(* checkNativeValidity(field).valid *)
checkNativeValidity(f, at, val) == Validity(f, at, val) = "valid"

shouldValidateFieldAlways(cfg, val, chk) == TRUE

(* shouldValidateField: no condition, or the target is missing, or the
   target's value as a string equals the expected value *)
shouldValidateField(cfg, val, chk) ==
  IF cfg.validateIf = NoCond THEN TRUE
  ELSE LET targetFieldName == cfg.validateIf[1]
           expectedValue == cfg.validateIf[2]
       IN IF targetFieldName \notin Fields THEN TRUE
          ELSE getFieldValue(targetFieldName, val, chk) = expectedValue

----------------------------------------------------------------------------
(* State mutation: setFieldError / clearFieldError *)

setFieldError(vs, f, message) ==
  MapSet(vs, [key |-> f, isValid |-> FALSE, message |-> message])

clearFieldError(vs, f) ==
  MapSet(vs, [key |-> f, isValid |-> TRUE, message |-> ""])

----------------------------------------------------------------------------
(* Errors a validation promise rejects with *)

(* executeAsyncValidator, validator without signal support:
   reject(new Error('AbortError')): the name is Error, the message AbortError *)
WrappedAbortError == [name |-> "Error", message |-> "AbortError"]

(* what fetch and other signal-aware primitives reject with on abort *)
DOMAbortError == [name |-> "AbortError", message |-> "aborted"]

(* what a validator throws, or its promise rejects with, when it fails *)
FailureError == [name |-> "Error", message |-> "failure"]

NoError == [name |-> "", message |-> ""]

(* an outer catch that swallows the error *)
ValidationErrorTextNone(err) == "true"

(* executeValidator, outer catch: `Validation error: ${error.message}` *)
ValidationErrorText(err) ==
  IF err.message = "AbortError" THEN AbortMessage ELSE ThrownMessage

(* Microtask turns between the settlement of the validator's promise and the
   continuation of executeValidator: Promise.race reaction, await in
   executeAsyncValidator, await in executeValidator (one turn fewer when the
   validator is awaited directly).  The continuation runs when the count of
   remaining turns is 0. *)
Hops(r) == IF AcceptsSignal(r) THEN 1 ELSE 2

(* An entry of the microtask queue: the continuation of validateField call c,
   due after k more turns *)
Item(c, k) == [t |-> "call", c |-> c, k |-> k]

(* The continuation of an `await Promise.all(...)` of the form-level passes:
   t names the awaiting function, n the group it validates; the aggregate
   promise resolves one turn after its last member *)
FormItem(t, n) == [t |-> t, c |-> n, k |-> 1]

----------------------------------------------------------------------------
(* The view of the fields: DOMManager's batched updates, what the fields
   show, and the events dispatched *)

(* DOMManager after scanFields: no update batched, every registration's
   isValid null, nothing shown on the fields *)
NoDom ==
  [batched |-> <<>>, scheduled |-> FALSE,
   isValid |-> [f \in Fields |-> "null"],
   text |-> [f \in Fields |-> ""],
   classes |-> [f \in Fields |-> {}],
   aria |-> [f \in Fields |-> "unset"],
   early |-> {},
   \* history: reset() has run with no validation in flight, and no
   \* validation has been requested since
   afterReset |-> FALSE]

NoEvents == [f \in Fields |-> [valid |-> 0, invalid |-> 0]]

(* no submit event handled yet.  first is history: the earliest field in
   form order recorded invalid when the handler looked for the field to focus *)
NoSubmit ==
  [pc |-> "idle", prevented |-> FALSE, submitted |-> FALSE, valid |-> "none",
   focus |-> "", first |-> ""]

(* no debounce timer armed (deadline 0), no field listener added.  events,
   last, burst and blurs are history: the input events a field has received,
   the time of the last one, whether each of them followed the one before
   within the debounce window, and the blur events the field has received *)
NoTimers ==
  [deadline |-> [f \in Fields |-> 0],
   events |-> [f \in Fields |-> 0],
   last |-> [f \in Fields |-> 0],
   burst |-> [f \in Fields |-> TRUE],
   listeners |-> {},
   blurs |-> [f \in Fields |-> 0],
   \* ticks left on the timer of the throttled mutation handler
   throttle |-> 0]

(* attachEventListeners: attachFieldListeners on every field the DOM manager
   holds when the instance is constructed *)
attachEventListeners(reg) ==
  [NoTimers EXCEPT !.listeners = {f \in Fields : reg[f].registered}]

(* scheduleUpdate: the update joins the batch; the first one of a batch asks
   for an animation frame *)
scheduleUpdate(d, u) == [d EXCEPT !.batched = Append(@, u), !.scheduled = TRUE]

(* displayError / clearError / markValid: each only schedules its update *)
displayError(d, f, message) ==
  scheduleUpdate(d, [op |-> "displayError", f |-> f, message |-> message])

clearError(d, f) == scheduleUpdate(d, [op |-> "clearError", f |-> f, message |-> ""])

markValid(d, f) == scheduleUpdate(d, [op |-> "markValid", f |-> f, message |-> ""])

(* AccessibilityManager.setInvalid / setValid: aria-invalid is written at
   once.  early remembers the fields written while a batch was waiting for
   its frame *)
setInvalid(d, f) == [d EXCEPT !.aria[f] = "true", !.early = @ \cup {f}]

setValid(d, f) == [d EXCEPT !.aria[f] = "false", !.early = @ \cup {f}]

(* sanitizeErrorMessage: String(message || ''), markup read back as text *)
sanitizeErrorMessage(message) == IF message = "null" THEN "" ELSE message

(* one batched update, run by the frame callback on the registry reg *)
RunUpdate(d, u, reg) ==
  IF u.op = "fieldsChanged" THEN d   \* onFieldsChanged is not set by anyone
  ELSE IF ~reg[u.f].registered THEN d
  ELSE CASE u.op = "displayError" ->
              [d EXCEPT !.text[u.f] = sanitizeErrorMessage(u.message),
                        !.classes[u.f] = (@ \cup {"error"}) \ {"valid"},
                        !.aria[u.f] = "true",
                        !.isValid[u.f] = "false"]
         [] u.op = "clearError" ->
              [d EXCEPT !.text[u.f] = "",
                        !.classes[u.f] = @ \ {"error"},
                        !.aria[u.f] = "false",
                        !.isValid[u.f] = "true"]
         [] OTHER -> \* markValid: clearError is scheduled again, into this batch
              [clearError(d, u.f) EXCEPT !.classes[u.f] = @ \cup {"valid"},
                                         !.isValid[u.f] = "true"]

RECURSIVE RunUpdates(_, _, _)
(* batchedUpdates.forEach(update => update()): a Set's forEach also visits
   the updates added while it runs *)
RunUpdates(d, n, reg) ==
  IF n > Len(d.batched) THEN d
  ELSE RunUpdates(RunUpdate(d, d.batched[n], reg), n + 1, reg)

RECURSIVE RunSnapshot(_, _, _, _)
RunSnapshot(d, n, last, reg) ==
  IF n > last THEN d
  ELSE RunSnapshot(RunUpdate(d, d.batched[n], reg), n + 1, last, reg)

(* a flush over a copy of the batch: updates added meanwhile are dropped *)
performBatchUpdateSnapshot(d, reg) ==
  [RunSnapshot(d, 1, Len(d.batched), reg) EXCEPT
     !.batched = <<>>, !.scheduled = FALSE, !.early = {}]

(* the animation frame callback: every update of the batch, then the batch
   is cleared *)
performBatchUpdate(d, reg) ==
  [RunUpdates(d, 1, reg) EXCEPT !.batched = <<>>, !.scheduled = FALSE, !.early = {}]

(* dispatchEvent('formguard:valid' / 'formguard:invalid') *)
dispatchEvent(ev, type, f) ==
  IF type = "valid" THEN [ev EXCEPT ![f].valid = @ + 1]
  ELSE [ev EXCEPT ![f].invalid = @ + 1]

----------------------------------------------------------------------------
(* validateField invocations *)

Untouched == [isValid |-> TRUE, message |-> "untouched"]

IdleCall ==
  [pc |-> "idle", field |-> "", value |-> "", rules |-> <<>>, i |-> 0,
   res |-> "none", vres |-> "none", settle |-> "none", err |-> NoError,
   sig |-> FALSE, out |-> "none",
   \* history of the invocation, read by the properties only
   invoked |-> {}, hits |-> {}, trusted |-> {}, reached |-> {}, outs |-> <<>>,
   reported |-> "none", cancelled |-> FALSE, cancelRes |-> "none",
   superseded |-> FALSE, supBy |-> 0, staleUsed |-> FALSE, overlapped |-> FALSE,
   expect |-> Untouched, validity |-> "valid", condValue |-> "",
   epoch0 |-> 0, epoch |-> 0, cachedEpoch |-> 0, startedAt |-> 0, cachedAt |-> 0, cachedKey |-> <<>>,
   prior |-> FALSE, hitAt |-> 0, threw |-> {}, dead |-> FALSE,
   \* the response the request of remote or unique got, "none" before it came
   response |-> "none"]

(* the pieces of state one step of the engine rewrites *)
World == [calls |-> calls, infl |-> asyncValidationPromises, cache |-> cache,
          queue |-> queue, vs |-> validationState, form |-> form,
          dom |-> dom, events |-> events]

Apply(w) ==
  /\ calls' = w.calls
  /\ asyncValidationPromises' = w.infl
  /\ cache' = w.cache
  /\ queue' = w.queue
  /\ validationState' = w.vs
  /\ form' = w.form
  /\ dom' = w.dom
  /\ events' = w.events

(* FormGuard.setFieldError: the state entry, the batched display, the ARIA
   flag, the formguard:invalid event *)
FieldError(w, f, message) ==
  [w EXCEPT !.vs = setFieldError(w.vs, f, message),
            !.dom = setInvalid(displayError(w.dom, f, message), f),
            !.events = dispatchEvent(w.events, "invalid", f)]

(* FormGuard.clearFieldError: the state entry, the batched clearing and
   marking, the ARIA flag, the formguard:valid event *)
FieldValid(w, f) ==
  [w EXCEPT !.vs = clearFieldError(w.vs, f),
            !.dom = setValid(markValid(clearError(w.dom, f), f), f),
            !.events = dispatchEvent(w.events, "valid", f)]

(* `${field.name || field.id}-${rule.name}` *)
existingKey(f, r) == FieldName(f) \o "-" \o r

RECURSIVE FirstFailure(_, _, _)
(* the first rule of the list, from index i on, whose validator rejects v; 0 if none *)
FirstFailure(rules, v, i) ==
  IF i > Len(rules) THEN 0
  ELSE IF HasValidator(rules[i]) /\ ValidatorResult(rules[i], v) # "true" THEN i
  ELSE FirstFailure(rules, v, i + 1)

(* The outcome of validating field f on the present DOM with nothing else
   going on: what a request for f asks to have recorded *)
Expected(f) ==
  IF options.useNativeValidation /\ ~checkNativeValidity(f, attrs, value)
    THEN [isValid |-> FALSE,
          message |-> getNativeValidationMessage(Validity(f, attrs, value))]
  ELSE IF ~fieldRegistry[f].registered THEN Untouched
  ELSE IF ~shouldValidateField(fieldRegistry[f], value, checked)
    THEN [isValid |-> TRUE, message |-> ""]
  ELSE LET rules == fieldRegistry[f].rules
           v == getFieldValue(f, value, checked)
           n == FirstFailure(rules, v, 1)
       IN IF n = 0 THEN [isValid |-> TRUE, message |-> ""]
          ELSE [isValid |-> FALSE,
                message |-> getErrorMessage(rules[n], ValidatorResult(rules[n], v))]

(* controller.abort() on the invocation id = <<call, rule index>>.  A wrapped
   validator's race rejects at once; a signal-aware validator only sees the
   flag.  Nothing happens when the promise has already settled. *)
Abort(w, id) ==
  LET c0 == id[1]
      cl == w.calls[c0]
  IN IF cl.pc = "pending" /\ cl.i = id[2]
       THEN IF AcceptsSignal(cl.rules[cl.i])
              THEN [w EXCEPT !.calls[c0].sig = TRUE, !.calls[c0].cancelled = TRUE]
              ELSE [w EXCEPT !.calls[c0].sig = TRUE, !.calls[c0].cancelled = TRUE,
                             !.calls[c0].settle = "rejected",
                             !.calls[c0].err = WrappedAbortError,
                             !.calls[c0].pc = "settled",
                             !.queue = Append(w.queue, Item(c0, Hops(cl.rules[cl.i])))]
     ELSE IF cl.pc = "settled" /\ cl.i = id[2]
       THEN [w EXCEPT !.calls[c0].sig = TRUE]
       ELSE w

(* history: the invocation id no longer owns the entry of its key *)
MarkSuperseded(w, id, by) ==
  LET c0 == id[1]
      cl == w.calls[c0]
  IN IF cl.pc \in {"pending", "settled"} /\ cl.i = id[2]
       THEN [w EXCEPT !.calls[c0].superseded = TRUE, !.calls[c0].supBy = by,
                      !.calls[c0].overlapped = (cl.pc = "pending")]
       ELSE w

(* history: some call had its result for this cache key cached since the last
   clear and less than the time to live ago *)
CachedBefore(cs, cacheKey) ==
  \E d \in DOMAIN cs :
    /\ cs[d].cachedAt > 0
    /\ cs[d].cachedEpoch = epoch
    /\ cs[d].cachedKey = cacheKey
    /\ now - cs[d].cachedAt < CacheTTL

(* executeValidator up to its first await (or its return), for rule i of call c *)
executeValidator(w, c, i) ==
  LET cl == w.calls[c]
      r == cl.rules[i]
      at == [cl EXCEPT !.i = i, !.reached = @ \cup {i}]
      ret(res, more) ==
        [w EXCEPT !.calls[c] = [more EXCEPT !.res = res, !.pc = "ret"],
                  !.queue = Append(w.queue, Item(c, 0))]
  IN IF ~HasValidator(r) THEN ret("true", at)
     ELSE IF ~isAsyncValidator(r)
       THEN ret(IF Throws(r, cl.value) THEN ValidationErrorText(FailureError)
                                       ELSE ValidatorResult(r, cl.value),
                [at EXCEPT !.invoked = @ \cup {i},
                           !.threw = IF Throws(r, cl.value) THEN @ \cup {i} ELSE @])
     ELSE
       LET cacheKey == getCacheKey(r, cl.value)
           key == existingKey(cl.field, r)
       IN IF CacheFresh(w.cache, cacheKey, now)
            THEN ret(MapGet(w.cache, cacheKey).result,
                     [at EXCEPT !.hits = @ \cup {i}, !.hitAt = now, !.epoch = epoch])
            ELSE
              LET w1 == [w EXCEPT !.cache = CacheAfterGet(w.cache, cacheKey, now)]
                  old == MapHas(w1.infl, key)
                  w2 == IF old
                          THEN Abort(MarkSuperseded(w1, MapGet(w1.infl, key).id, c),
                                     MapGet(w1.infl, key).id)
                          ELSE w1
                  w3 == [w2 EXCEPT !.infl = MapSet(w2.infl,
                            [key |-> key, id |-> <<c, i>>, timestamp |-> now])]
                  started == [at EXCEPT !.invoked = @ \cup {i}, !.sig = FALSE,
                                        !.cancelled = FALSE, !.superseded = FALSE,
                                        !.err = NoError, !.epoch = epoch,
                                        !.startedAt = now,
                                        !.prior = CachedBefore(w.calls, cacheKey)]
              IN IF ResolvesAtOnce(r, cl.value)
                   THEN [w3 EXCEPT
                           !.calls[c] = [started EXCEPT !.pc = "settled", !.settle = "value",
                                           !.vres = ValidatorResult(r, cl.value)],
                           !.queue = Append(w3.queue, Item(c, Hops(r)))]
                   ELSE [w3 EXCEPT
                           !.calls[c] = [started EXCEPT !.pc = "pending", !.settle = "none",
                                           !.vres = "none"]]

(* validateField: the rule loop from rule i on, up to the next await *)
RunFrom(w, c, i) ==
  LET cl == w.calls[c]
  IN IF i > Len(cl.rules)
       THEN [FieldValid(w, cl.field) EXCEPT
                      !.calls[c].pc = "done", !.calls[c].out = "true"]
       ELSE executeValidator(w, c, i)

(* a loop that does not stop at the failing rule *)
ResumeIgnoringFailure(w, c) ==
  RunFrom([w EXCEPT !.calls[c].outs = Append(@, w.calls[c].res)], c, w.calls[c].i + 1)

(* validateField, catch (error) *)
CaughtMessage == "Validation error occurred"

(* the message validateField records for the failing rule: getErrorMessage,
   which throws on fieldConfig.customMessages when the result is no string
   and the field has lost its registration; validateField catches that *)
FailureMessage(cl) ==
  IF cl.res = "false" /\ ~fieldRegistry[cl.field].registered
    THEN CaughtMessage
    ELSE getErrorMessage(cl.rules[cl.i], cl.res)

(* validateField resumed with the rule's outcome: fail fast, or go on *)
ResumeValidateField(w, c) ==
  LET cl == w.calls[c]
      w1 == [w EXCEPT !.calls[c].outs = Append(@, cl.res)]
  IN IF cl.res # "true"
       THEN [FieldError(w1, cl.field, FailureMessage(cl)) EXCEPT
                       !.calls[c].reported = FailureMessage(cl),
                       !.calls[c].pc = "done", !.calls[c].out = "false"]
       ELSE RunFrom(w1, c, cl.i + 1)

TokenMatchesAny(entryId, validationId) == TRUE

(* currentValidation.id === validationId *)
TokenMatches(entryId, validationId) == entryId = validationId

(* executeValidator resumed after `await validationPromise.promise` *)
ResumeExecuteValidator(w, c) ==
  LET cl == w.calls[c]
      r == cl.rules[cl.i]
      key == existingKey(cl.field, r)
      back(w1, res) ==
        [w1 EXCEPT !.calls[c].res = res, !.calls[c].pc = "ret",
                   !.calls[c].cancelRes = IF cl.cancelled THEN res ELSE @,
                   !.queue = Append(w1.queue, Item(c, 0))]
  IN IF cl.settle = "value"
       THEN IF MapHas(w.infl, key) /\ TokenMatches(MapGet(w.infl, key).id, <<c, cl.i>>)
              THEN back([w EXCEPT
                           !.cache = setCache(w.cache, getCacheKey(r, cl.value), cl.vres, now),
                           !.infl = MapDelete(w.infl, key),
                           !.calls[c].trusted = @ \cup {cl.i},
                           !.calls[c].cachedAt = now,
                           !.calls[c].cachedEpoch = epoch,
                           !.calls[c].cachedKey = getCacheKey(r, cl.value),
                           !.calls[c].staleUsed = cl.superseded],
                        cl.vres)
              ELSE back(w, "true")
       ELSE \* catch (error): the entry of the key is deleted, whoever owns it
         LET w1 == [w EXCEPT !.infl = MapDelete(w.infl, key)]
         IN IF cl.err.name = "AbortError"
              THEN back(w1, "true")
              ELSE back(w1, ValidationErrorText(cl.err))

----------------------------------------------------------------------------
(* The event loop *)

(* a script may run: a new macrotask, or the script that made the last call
   has not returned to the event loop yet *)
CanRunScript == queue = <<>> \/ syncOpen

(* a macrotask (DOM event, network answer, timer) starts on an empty queue *)
CanRunTask == queue = <<>>

FirstIdle(c) == calls[c].pc = "idle" /\ \A d \in Calls : d < c => calls[d].pc # "idle"

(* validateField(field), from its entry to its first await or its return *)
validateField(w0, c, f) ==
  LET begun == [IdleCall EXCEPT !.field = f, !.expect = Expected(f),
                  !.epoch0 = epoch,
                  !.validity = Validity(f, attrs, value),
                  !.condValue = IF fieldRegistry[f].registered
                                     /\ fieldRegistry[f].validateIf # NoCond
                                     /\ fieldRegistry[f].validateIf[1] \in Fields
                                  THEN getFieldValue(fieldRegistry[f].validateIf[1],
                                                     value, checked)
                                  ELSE ""]
      w == [w0 EXCEPT !.calls[c] = [begun EXCEPT !.dead = isDestroyed],
                      !.dom.afterReset = FALSE]
  IN IF isDestroyed
       THEN [w EXCEPT !.calls[c].pc = "done", !.calls[c].out = "true"]
     ELSE IF options.useNativeValidation /\ ~checkNativeValidity(f, attrs, value)
       THEN [FieldError(w, f, getNativeValidationMessage(Validity(f, attrs, value)))
               EXCEPT !.calls[c].reported =
                               getNativeValidationMessage(Validity(f, attrs, value)),
                      !.calls[c].pc = "done", !.calls[c].out = "false"]
     ELSE IF ~fieldRegistry[f].registered
       THEN [w EXCEPT !.calls[c].pc = "done", !.calls[c].out = "true"]
     ELSE IF ~shouldValidateField(fieldRegistry[f], value, checked)
       THEN [FieldValid(w, f) EXCEPT
                      !.calls[c].pc = "done", !.calls[c].out = "true"]
     ELSE RunFrom([w EXCEPT !.calls[c].value = getFieldValue(f, value, checked),
                            !.calls[c].rules = fieldRegistry[f].rules], c, 1)

----------------------------------------------------------------------------
(* Whole-form and group validation *)

(* no form-level pass has been asked for *)
NoForm ==
  [pc |-> "idle", mode |-> "none", first |-> <<>>, isValid |-> TRUE,
   groups |-> <<>>, groupResults |-> TRUE, result |-> "none", dead |-> FALSE]

(* the fields of the form in document order, the order DOMManager registers
   them in *)
FieldOrder == <<"f1", "f2", "cb">>

(* domManager.getFields(): the keys of the field registry *)
getFields == SelectSeq(FieldOrder, LAMBDA f : fieldRegistry[f].registered)

(* a group that takes in every registered field *)
GroupFieldsAll(g) == getFields

(* getValidationGroups()[g]: the registered fields whose configuration
   declares group g, in registration order *)
GroupFields(g) ==
  SelectSeq(getFields, LAMBDA f : g # NoGroup /\ fieldRegistry[f].group = g)

RECURSIVE GroupNames(_, _)
(* Object.keys(getValidationGroups()): the declared names, each once, in the
   order the fields first declare them *)
GroupNames(fields, seen) ==
  IF fields = <<>> THEN <<>>
  ELSE LET g == fieldRegistry[Head(fields)].group
       IN IF g = NoGroup \/ g \in seen
            THEN GroupNames(Tail(fields), seen)
            ELSE <<g>> \o GroupNames(Tail(fields), seen \cup {g})

getValidationGroups == GroupNames(getFields, {})

(* getGroupErrors(groupName): name -> message of the group's fields recorded
   invalid with a message *)
getGroupErrors(vs, g) ==
  LET fs == GroupFields(g)
  IN {<<FieldName(fs[n]), MapGet(vs, fs[n]).message>> :
        n \in {m \in 1..Len(fs) : /\ MapHas(vs, fs[m])
                                  /\ ~MapGet(vs, fs[m]).isValid
                                  /\ MapGet(vs, fs[m]).message # ""}}

(* the validateField invocations the form-level passes make *)
FormCalls == (MaxCalls + 1)..(MaxCalls + 2 * Cardinality(TextFields))

NextFormCall(w) ==
  CHOOSE c \in FormCalls :
    /\ w.calls[c].pc = "idle"
    /\ \A d \in FormCalls : d < c => w.calls[d].pc # "idle"

RECURSIVE StartAll(_, _)
(* fields.map(field => this.validateField(field)): every call is made, one
   after the other, before the script gives the event loop a turn *)
StartAll(st, fields) ==
  IF fields = <<>> THEN st
  ELSE LET c == NextFormCall(st.w)
       IN StartAll([w |-> validateField(st.w, c, Head(fields)),
                    ids |-> Append(st.ids, c)], Tail(fields))

(* a conjunction that one valid outcome satisfies *)
some(cs, ids) == \E n \in 1..Len(ids) : cs[ids[n]].out = "true"

(* results.every(result => result === true) over the outcomes of the calls ids *)
every(cs, ids) == \A n \in 1..Len(ids) : cs[ids[n]].out = "true"

(* Promise.all(validationPromises) has all its members resolved *)
AllDone(cs, ids) == \A n \in 1..Len(ids) : cs[ids[n]].pc = "done"

(* validateAllFields() up to `await Promise.all` *)
validateAllFields(w) ==
  LET st == StartAll([w |-> w, ids |-> <<>>], getFields)
  IN [st.w EXCEPT !.form.pc = "fields", !.form.mode = "all", !.form.first = st.ids]

(* validateGroup(groupName) up to `await Promise.all`, or to its return when
   the group is unknown or empty *)
validateGroup(w, groupName) ==
  LET groupFields == GroupFields(groupName)
      entry == [name |-> groupName, calls |-> <<>>, pc |-> "wait", valid |-> TRUE,
                errors |-> {}]
  IN IF groupFields = <<>>
       THEN [w EXCEPT !.form.groups = Append(@, [entry EXCEPT !.pc = "done"]),
                      !.form.pc = IF w.form.mode = "group" THEN "done" ELSE @,
                      !.form.result = IF w.form.mode = "group" THEN "true" ELSE @]
       ELSE LET st == StartAll([w |-> w, ids |-> <<>>], groupFields)
            IN [st.w EXCEPT !.form.groups = Append(@, [entry EXCEPT !.calls = st.ids])]

RECURSIVE StartGroups(_, _)
(* Object.keys(groups).map(groupName => this.validateGroup(groupName)) *)
StartGroups(w, names) ==
  IF names = <<>> THEN w
  ELSE StartGroups(validateGroup(w, Head(names)), Tail(names))

(* validateAllGroups() up to `await Promise.all` *)
validateAllGroups(w) ==
  [StartGroups(w, getValidationGroups) EXCEPT !.form.pc = "groups"]

(* validateAllFields() after its first await: the field outcomes are
   aggregated, then the groups are validated *)
ResumeValidateAllFields(w) ==
  validateAllGroups([w EXCEPT !.form.isValid = every(w.calls, w.form.first)])

(* validateGroup() after its await: the outcome of the group, and the
   group-validated event with the group's error map *)
ResumeValidateGroup(w, n) ==
  LET g == w.form.groups[n]
      isGroupValid == every(w.calls, g.calls)
      w1 == [w EXCEPT !.form.groups[n] =
               [g EXCEPT !.pc = "done", !.valid = isGroupValid,
                         !.errors = getGroupErrors(w.vs, g.name)]]
  IN IF w.form.mode = "group"
       THEN [w1 EXCEPT !.form.pc = "done", !.form.groupResults = isGroupValid,
                       !.form.result = BoolString(isGroupValid)]
       ELSE w1

(* validateAllGroups() after its await, and the return of validateAllFields
   and validate() behind it: isValid && groupResults *)
ResumeValidateAllGroups(w) ==
  LET groupResults == \A n \in 1..Len(w.form.groups) : w.form.groups[n].valid
  IN [w EXCEPT !.form.pc = "done", !.form.groupResults = groupResults,
               !.form.result = IF w.form.mode = "all"
                                 THEN BoolString(w.form.isValid /\ groupResults)
                                 ELSE BoolString(groupResults)]

(* Promise.all of validateAllFields resolves once every field call has *)
NotifyFields(w) ==
  IF w.form.pc = "fields" /\ AllDone(w.calls, w.form.first)
    THEN [w EXCEPT !.form.pc = "fieldsQueued",
                   !.queue = Append(@, FormItem("fields", 0))]
    ELSE w

RECURSIVE NotifyGroups(_, _)
(* Promise.all of each validateGroup resolves once every call of the group has *)
NotifyGroups(w, n) ==
  IF n > Len(w.form.groups) THEN w
  ELSE LET g == w.form.groups[n]
       IN NotifyGroups(IF g.pc = "wait" /\ AllDone(w.calls, g.calls)
                         THEN [w EXCEPT !.form.groups[n].pc = "queued",
                                        !.queue = Append(@, FormItem("group", n))]
                         ELSE w, n + 1)

(* Promise.all of validateAllGroups resolves once every validateGroup has *)
NotifyAllGroups(w) ==
  IF /\ w.form.pc = "groups"
     /\ \A n \in 1..Len(w.form.groups) : w.form.groups[n].pc = "done"
    THEN [w EXCEPT !.form.pc = "groupsQueued",
                   !.queue = Append(@, FormItem("groups", 0))]
    ELSE w

(* the promise reactions a step of the engine triggers *)
Notify(w) == NotifyAllGroups(NotifyGroups(NotifyFields(w), 1))

(* a blur/input event or host code asks for the validation of field f *)
StartValidateField(c, f) ==
  /\ CanRunScript
  /\ FirstIdle(c)
  /\ LET w == Notify(validateField(World, c, f))
     IN Apply(w) /\ syncOpen' = (w.queue # <<>>)
  /\ UNCHANGED <<options, fieldRegistry, attrs, value, checked, now, lastSweep, epoch, hostVars>>

(* the reaction at the head of the microtask queue, run on the world w it
   was taken out of *)
MicrotaskStep(h, w) ==
  IF h.k > 0
    THEN [w EXCEPT !.queue = Append(@, [h EXCEPT !.k = @ - 1])]
    ELSE IF h.t = "fields" THEN Notify(ResumeValidateAllFields(w))
    ELSE IF h.t = "group" THEN Notify(ResumeValidateGroup(w, h.c))
    ELSE IF h.t = "groups" THEN ResumeValidateAllGroups(w)
    ELSE IF w.calls[h.c].pc = "settled"
      THEN ResumeExecuteValidator(w, h.c)
      ELSE Notify(ResumeValidateField(w, h.c))

(* one turn of the microtask queue *)
Microtask ==
  /\ queue # <<>>
  /\ Apply(MicrotaskStep(Head(queue), [World EXCEPT !.queue = Tail(queue)]))
  /\ syncOpen' = FALSE
  /\ UNCHANGED <<options, fieldRegistry, attrs, value, checked, now, lastSweep, epoch, hostVars>>

(* the asynchronous validator of a pending call answers (a network reply) *)
ValidatorResolves(c) ==
  /\ CanRunTask
  /\ calls[c].pc = "pending"
  /\ LET cl == calls[c]
         r == cl.rules[cl.i]
     IN /\ calls' = [calls EXCEPT ![c].pc = "settled", ![c].settle = "value",
                                  ![c].vres = ValidatorResult(r, cl.value)]
        /\ queue' = <<Item(c, Hops(r))>>
  /\ syncOpen' = FALSE
  /\ UNCHANGED <<options, fieldRegistry, attrs, value, checked, validationState,
                 asyncValidationPromises, cache, now, lastSweep, epoch, form, hostVars, viewVars>>

(* the endpoint of a pending remote or unique validator responds, or the
   request fails: the validator's promise resolves with what the validator
   makes of the response *)
EndpointResponds(c) ==
  /\ CanRunTask
  /\ calls[c].pc = "pending"
  /\ calls[c].rules[calls[c].i] \in {"remote", "unique"}
  /\ \E resp \in Responses :
       LET cl == calls[c]
           r == cl.rules[cl.i]
       IN /\ calls' = [calls EXCEPT ![c].pc = "settled", ![c].settle = "value",
                                    ![c].response = resp,
                                    ![c].vres = IF r = "remote"
                                                  THEN remote(cl.value, resp)
                                                  ELSE unique(cl.value, resp)]
          /\ queue' = <<Item(c, Hops(r))>>
  /\ syncOpen' = FALSE
  /\ UNCHANGED <<options, fieldRegistry, attrs, value, checked, validationState,
                 asyncValidationPromises, cache, now, lastSweep, epoch, form, hostVars, viewVars>>

(* a signal-aware validator honours the abort: its promise rejects with an
   AbortError, as soon as the aborting script returns or any time later *)
ValidatorAborts(c) ==
  /\ CanRunScript
  /\ calls[c].pc = "pending"
  /\ calls[c].sig
  /\ calls' = [calls EXCEPT ![c].pc = "settled", ![c].settle = "rejected",
                            ![c].err = DOMAbortError]
  /\ queue' = Append(queue, Item(c, Hops(calls[c].rules[calls[c].i])))
  /\ syncOpen' = TRUE
  /\ UNCHANGED <<options, fieldRegistry, attrs, value, checked, validationState,
                 asyncValidationPromises, cache, now, lastSweep, epoch, form, hostVars, viewVars>>

(* the asynchronous validator of a pending call fails (a network error): its
   promise rejects with an error that is not a cancellation *)
ValidatorRejects(c) ==
  /\ CanRunTask
  /\ calls[c].pc = "pending"
  /\ calls' = [calls EXCEPT ![c].pc = "settled", ![c].settle = "rejected",
                            ![c].err = FailureError, ![c].threw = @ \cup {calls[c].i}]
  /\ queue' = <<Item(c, Hops(calls[c].rules[calls[c].i]))>>
  /\ syncOpen' = FALSE
  /\ UNCHANGED <<options, fieldRegistry, attrs, value, checked, validationState,
                 asyncValidationPromises, cache, now, lastSweep, epoch, form, hostVars, viewVars>>

(* the user (or host code) edits a text field *)
SetValue(f, v) ==
  /\ CanRunScript
  /\ fieldRegistry[f].registered
  /\ value[f] # v
  /\ value' = [value EXCEPT ![f] = v]
  /\ UNCHANGED <<options, fieldRegistry, attrs, checked, validationState,
                 asyncValidationPromises, cache, now, lastSweep, calls, queue,
                 syncOpen, epoch, form, hostVars, viewVars>>

(* the user ticks or unticks a checkbox *)
Toggle(f) ==
  /\ CanRunScript
  /\ \E g \in Fields : fieldRegistry[g].registered /\ fieldRegistry[g].validateIf # NoCond
  /\ checked' = [checked EXCEPT ![f] = ~@]
  /\ UNCHANGED <<options, fieldRegistry, attrs, value, validationState,
                 asyncValidationPromises, cache, now, lastSweep, calls, queue,
                 syncOpen, epoch, form, hostVars, viewVars>>

(* time passes between macrotasks *)
Tick ==
  /\ CanRunTask
  /\ now < MaxTime
  /\ now' = now + 1
  /\ UNCHANGED <<options, fieldRegistry, attrs, value, checked, validationState,
                 asyncValidationPromises, cache, lastSweep, calls, queue,
                 syncOpen, epoch, form, hostVars, viewVars>>

RECURSIVE AbortAll(_, _)
(* controller.abort() on every entry of the list, in order *)
AbortAll(w, entries) ==
  IF entries = <<>> THEN w
  ELSE AbortAll(Abort(w, Head(entries).id), Tail(entries))

(* this.maxAsyncPromises = options.maxAsyncPromises || 100 *)
maxAsyncPromises ==
  IF "maxAsyncPromises" \in DOMAIN options THEN options.maxAsyncPromises
  ELSE MaxAsyncPromises

(* this.maxStateEntries = options.maxStateEntries || 1000 *)
maxStateEntries ==
  IF "maxStateEntries" \in DOMAIN options THEN options.maxStateEntries
  ELSE MaxStateEntries

(* no entry is ever too old *)
TooOldNever(e) == FALSE

(* promiseData.timestamp && now - promiseData.timestamp > 60000 *)
TooOld(e) == now - e.timestamp > AsyncMaxAge

(* cleanupOldState: entries older than a minute are aborted and deleted, then
   the oldest entries beyond the maxima (timestamps are Date.now(), never 0) *)
cleanupOldState(w) ==
  LET old == SelectSeq(w.infl, TooOld)
      w1 == [AbortAll(w, old) EXCEPT
               !.infl = SelectSeq(w.infl, LAMBDA e : ~TooOld(e))]
      over == IF Len(w1.infl) > maxAsyncPromises
                THEN Oldest(w1.infl, Len(w1.infl) - maxAsyncPromises) ELSE <<>>
      w2 == [AbortAll(w1, over) EXCEPT
               !.infl = SubSeq(w1.infl, Len(over) + 1, Len(w1.infl))]
  IN [w2 EXCEPT !.vs = IF Len(w2.vs) > maxStateEntries
                         THEN SubSeq(w2.vs, Len(w2.vs) - maxStateEntries + 1, Len(w2.vs))
                         ELSE w2.vs]

(* the cleanup interval fires *)
Sweep ==
  /\ CanRunTask
  /\ ~isDestroyed
  /\ now - lastSweep >= StateCleanupInterval
  /\ LET w == cleanupOldState(World)
     IN Apply(w) /\ syncOpen' = FALSE
  /\ lastSweep' = lastSweep + StateCleanupInterval
  /\ UNCHANGED <<options, fieldRegistry, attrs, value, checked, now, epoch, hostVars>>

RECURSIVE ResetFields(_, _)
(* DOMManager.reset(): for every registered field the clearing of its error
   is scheduled, then its classes and ARIA attributes are removed and its
   registration's isValid is set to null *)
ResetFields(d, fields) ==
  IF fields = <<>> THEN d
  ELSE LET f == Head(fields)
       IN ResetFields([clearError(d, f) EXCEPT !.classes[f] = {},
                                               !.aria[f] = "unset",
                                               !.isValid[f] = "null"],
                      Tail(fields))

(* no validateField call and no form-level pass is between its start and its
   end *)
NoneInFlight ==
  /\ \A c \in DOMAIN calls : calls[c].pc \in {"idle", "done"}
  /\ form.pc \in {"idle", "done"}

(* reset(): state, in-flight map and cache are cleared (no handle is
   aborted), then the DOM manager is reset *)
Reset ==
  /\ CanRunScript
  /\ epoch < MaxResets
  /\ validationState' = <<>>
  /\ asyncValidationPromises' = <<>>
  /\ cache' = <<>>
  /\ epoch' = epoch + 1
  /\ dom' = [ResetFields(dom, getFields) EXCEPT !.afterReset = NoneInFlight]
  /\ UNCHANGED <<options, fieldRegistry, attrs, value, checked, now, lastSweep,
                 calls, queue, syncOpen, form, hostVars, events>>

(* The instances of the page. This is the instance whose engine the model
   follows; the others are known by whether they are destroyed. *)
This == 1

Instances == 1..MaxInstances

(* setupLiveRegion of a new instance's accessibility manager: the element of
   the id formguard-live-region the document holds is taken, or one is
   created and appended.  present: the document holds such an element;
   liveRegion[i]: instance i holds no element ("null"), the one in the
   document ("attached") or one that was removed from it ("detached") *)
setupLiveRegion(ins, i) ==
  [ins EXCEPT !.present = TRUE, !.liveRegion[i] = "attached"]

(* FormGuard.instances after the one constructor call of the page *)
OneInstance ==
  setupLiveRegion([tracked |-> <<This>>, live |-> {This}, present |-> FALSE,
                   liveRegion |-> [i \in Instances |-> "null"],
                   \* history: an announcement was written to an element that
                   \* is not in the document
                   lost |-> FALSE], This)

(* AccessibilityManager.destroy of instance i: the element it holds is
   removed from its parent if it has one (its id is the instance's
   liveRegionId), and the reference dropped *)
destroyLiveRegion(ins, i) ==
  [ins EXCEPT !.present = IF ins.liveRegion[i] = "attached" THEN FALSE ELSE @,
              !.liveRegion =
                 [j \in Instances |->
                    IF j = i THEN "null"
                    ELSE IF ins.liveRegion[i] = "attached" /\ @[j] = "attached"
                      THEN "detached" ELSE @[j]]]

(* destroy(): the cleanup timer is cleared, every in-flight handle aborted,
   the maps cleared, the DOM manager reset and emptied, the instance marked *)
destroyThis ==
  /\ LET w == AbortAll(World, asyncValidationPromises)
     IN /\ calls' = w.calls
        /\ queue' = w.queue
        /\ syncOpen' = (w.queue # <<>>)
  /\ asyncValidationPromises' = <<>>
  /\ validationState' = <<>>
  /\ dom' = [ResetFields(dom, getFields) EXCEPT !.batched = <<>>]
  /\ fieldRegistry' = [f \in Fields |-> NoConfig]
  /\ tree' = [tree EXCEPT !.containers =
                [f \in Fields |->
                   IF fieldRegistry[f].registered /\ tree.errorTarget[f] = "none" /\ @[f] > 0
                     THEN @[f] - 1 ELSE @[f]],
                \* mutationObserver.disconnect(); the timer of the throttled
                \* handler and its pending records are not touched
                !.observer = FALSE]
  /\ timers' = [timers EXCEPT !.listeners = {}]
  /\ isDestroyed' = TRUE
  /\ UNCHANGED <<options, attrs, value, checked, cache, now, lastSweep, epoch, form,
                 events, submit>>

(* instance.destroy() on the list of tracked instances: a destroyed instance
   returns at once; a live one is marked destroyed and spliced out of
   FormGuard.instances where indexOf finds it *)
destroy(ins, i) ==
  IF i \notin ins.live THEN ins
  ELSE [destroyLiveRegion(ins, i) EXCEPT
          !.tracked = SelectSeq(ins.tracked, LAMBDA x : x # i),
          !.live = ins.live \ {i}]

(* the page calls destroy() on this instance *)
Destroy ==
  /\ CanRunScript
  /\ ~isDestroyed
  /\ destroyThis
  /\ instances' = destroy(instances, This)

(* the animation frame the batch asked for *)
Frame ==
  /\ CanRunTask
  /\ dom.scheduled
  /\ dom' = performBatchUpdate(dom, fieldRegistry)
  /\ UNCHANGED <<options, fieldRegistry, attrs, value, checked, validationState,
                 asyncValidationPromises, cache, now, lastSweep, calls, queue,
                 syncOpen, epoch, form, hostVars, events>>

(* validatorRegistry.clearCache() *)
ClearCache ==
  /\ CanRunScript
  /\ epoch < MaxResets
  /\ cache # <<>>
  /\ cache' = <<>>
  /\ epoch' = epoch + 1
  /\ UNCHANGED <<options, fieldRegistry, attrs, value, checked, validationState,
                 asyncValidationPromises, now, lastSweep, calls, queue, syncOpen, form, hostVars, viewVars>>

----------------------------------------------------------------------------
(* The engine on one field: field f1 carries any of the rule lists below, with
   or without a condition on the checkbox and a native constraint *)

RuleLists == {<<>>, <<"required">>, <<"required", "email">>, <<"unique">>,
              <<"lookup">>, <<"unique", "email">>, <<"email", "unique">>}

Config(rules, cond, group) ==
  [registered |-> TRUE, rules |-> rules, validateIf |-> cond, group |-> group]

(* the form the registry reg was scanned from: its registered fields are in the
   form with a data-validate attribute, the tree is observed, no mutation
   record waits.  scanned is history: no change of the tree since the last
   periodic scan *)
TreeOf(reg) ==
  [observer |-> TRUE,
   inForm |-> {f \in Fields : reg[f].registered},
   validate |-> {f \in Fields : reg[f].registered},
   noValidate |-> {},
   rules |-> [f \in Fields |-> IF reg[f].registered THEN reg[f].rules ELSE <<"required">>],
   errorTarget |-> [f \in Fields |-> "none"],
   containers |-> [f \in Fields |-> IF reg[f].registered THEN 1 ELSE 0],
   pending |-> <<>>,
   scanned |-> TRUE,
   \* the name attribute of each field
   name |-> [f \in Fields |-> f]]

(* a page that has just built the instance: nothing destroyed, nothing
   shown, no event dispatched, no submit under way, no timer armed *)
InitHost ==
  /\ isDestroyed = FALSE
  /\ instances = OneInstance
  /\ dom = NoDom
  /\ events = NoEvents
  /\ submit = NoSubmit
  /\ timers = attachEventListeners(fieldRegistry)
  /\ tree = TreeOf(fieldRegistry)

Init ==
  /\ options \in {[useNativeValidation |-> b] : b \in BOOLEAN}
  /\ \E rules \in RuleLists, cond \in {NoCond, <<"cb", "true">>} :
       fieldRegistry = [f \in Fields |->
                          IF f = "f1" THEN Config(rules, cond, NoGroup) ELSE NoConfig]
  /\ \E a \in {"none", "required", "email"} :
       attrs = [f \in Fields |-> IF f = "f1" THEN a ELSE "none"]
  /\ (~options.useNativeValidation => attrs["f1"] = "required")
  /\ value = [f \in TextFields |-> ""]
  /\ checked = [f \in CheckFields |-> FALSE]
  /\ validationState = <<>>
  /\ asyncValidationPromises = <<>>
  /\ cache = <<>>
  /\ now = 1
  /\ lastSweep = 1
  /\ calls = [c \in Calls |-> IdleCall]
  /\ queue = <<>>
  /\ syncOpen = FALSE
  /\ epoch = 0
  /\ form = NoForm
  /\ InitHost

Next ==
  \/ \E c \in Calls : StartValidateField(c, "f1")
  \/ Microtask
  \/ \E c \in Calls : ValidatorResolves(c)
  \/ \E c \in Calls : ValidatorAborts(c)
  \/ \E v \in Values : SetValue("f1", v)
  \/ Toggle("cb")

Spec == Init /\ [][Next]_vars

----------------------------------------------------------------------------
(* The engine over time: asynchronous rule lists on field f1, the clock, the
   cleanup interval and cache clears *)

AsyncRuleLists == {<<"unique">>, <<"lookup">>}

InitTimed ==
  /\ options = [useNativeValidation |-> FALSE]
  /\ \E rules \in AsyncRuleLists :
       fieldRegistry = [f \in Fields |->
                          IF f = "f1" THEN Config(rules, NoCond, NoGroup) ELSE NoConfig]
  /\ attrs = [f \in Fields |-> "none"]
  /\ value = [f \in TextFields |-> IF f = "f1" THEN "bad" ELSE ""]
  /\ checked = [f \in CheckFields |-> FALSE]
  /\ validationState = <<>>
  /\ asyncValidationPromises = <<>>
  /\ cache = <<>>
  /\ now = 1
  /\ lastSweep = 1
  /\ calls = [c \in Calls |-> IdleCall]
  /\ queue = <<>>
  /\ syncOpen = FALSE
  /\ epoch = 0
  /\ form = NoForm
  /\ InitHost

NextTimed ==
  \/ \E c \in Calls : StartValidateField(c, "f1")
  \/ Microtask
  \/ \E c \in Calls : ValidatorResolves(c)
  \/ \E c \in Calls : ValidatorAborts(c)
  \/ \E v \in {"bad", "ok"} : SetValue("f1", v)
  \/ Tick
  \/ Sweep
  \/ ClearCache

SpecTimed == InitTimed /\ [][NextTimed]_vars

----------------------------------------------------------------------------
(* The engine on a form of two registered text fields, grouped or not: the
   whole-form pass, the group passes, and the user at work meanwhile *)

GroupArgs == {"g1", "g2", "g3"}

(* the validateField invocations blur and input events make during the passes *)
UserCalls == 1..(MaxCalls - 1)

(* host code calls validate() *)
StartValidate ==
  /\ CanRunScript
  /\ form.pc = "idle"
  /\ LET w == IF isDestroyed
                THEN [World EXCEPT !.form.pc = "done", !.form.mode = "all",
                                   !.form.dead = TRUE, !.form.result = "destroyed"]
                ELSE Notify(validateAllFields(World))
     IN Apply(w) /\ syncOpen' = (w.queue # <<>>)
  /\ UNCHANGED <<options, fieldRegistry, attrs, value, checked, now, lastSweep, epoch, hostVars>>

(* host code calls validateAllGroups() *)
StartValidateAllGroups ==
  /\ CanRunScript
  /\ form.pc = "idle"
  /\ LET w == Notify(validateAllGroups([World EXCEPT !.form.mode = "groups",
                                                     !.form.dead = isDestroyed]))
     IN Apply(w) /\ syncOpen' = (w.queue # <<>>)
  /\ UNCHANGED <<options, fieldRegistry, attrs, value, checked, now, lastSweep, epoch, hostVars>>

(* host code calls validateGroup(g) *)
StartValidateGroup(g) ==
  /\ CanRunScript
  /\ form.pc = "idle"
  /\ LET w == Notify(validateGroup([World EXCEPT !.form.mode = "group",
                                                 !.form.pc = "group",
                                                 !.form.dead = isDestroyed], g))
     IN Apply(w) /\ syncOpen' = (w.queue # <<>>)
  /\ UNCHANGED <<options, fieldRegistry, attrs, value, checked, now, lastSweep, epoch, hostVars>>

InitForm ==
  /\ options = [useNativeValidation |-> TRUE]
  /\ \E r1 \in {<<"lookup">>}, r2 \in {<<"required">>, <<"unique">>},
        g1 \in {NoGroup, "g1"}, g2 \in {NoGroup, "g1", "g2"} :
       fieldRegistry = [f \in Fields |->
                          IF f = "f1" THEN Config(r1, NoCond, g1)
                          ELSE IF f = "f2" THEN Config(r2, NoCond, g2)
                          ELSE NoConfig]
  /\ \E a \in {"none", "required"} :
       attrs = [f \in Fields |-> IF f = "f2" THEN a ELSE "none"]
  /\ \E v \in {"", "bad"} : value = [f \in TextFields |-> IF f = "f2" THEN v ELSE "ok"]
  /\ checked = [f \in CheckFields |-> FALSE]
  /\ validationState = <<>>
  /\ asyncValidationPromises = <<>>
  /\ cache = <<>>
  /\ now = 1
  /\ lastSweep = 1
  /\ calls = [c \in UserCalls \cup FormCalls |-> IdleCall]
  /\ queue = <<>>
  /\ syncOpen = FALSE
  /\ epoch = 0
  /\ form = NoForm
  /\ InitHost

NextForm ==
  \/ StartValidate
  \/ StartValidateAllGroups
  \/ \E g \in GroupArgs : StartValidateGroup(g)
  \/ \E c \in UserCalls : StartValidateField(c, "f1")
  \/ Microtask
  \/ \E c \in UserCalls \cup FormCalls : ValidatorResolves(c)
  \/ \E c \in UserCalls \cup FormCalls : ValidatorAborts(c)
  \/ \E v \in {"bad", "ok"} : SetValue("f1", v)

SpecForm == InitForm /\ [][NextForm]_vars

----------------------------------------------------------------------------
(* The form-level passes over validators that fail: a synchronous validator
   that throws, an asynchronous one whose promise rejects *)

InitErr ==
  /\ options = [useNativeValidation |-> TRUE]
  /\ \E r1 \in {<<"thrower">>, <<"lookup">>, <<"required", "thrower">>},
        r2 \in {<<"required">>, <<"unique">>, <<"thrower">>},
        g1 \in {NoGroup, "g1"}, g2 \in {NoGroup, "g1"} :
       fieldRegistry = [f \in Fields |->
                          IF f = "f1" THEN Config(r1, NoCond, g1)
                          ELSE IF f = "f2" THEN Config(r2, NoCond, g2)
                          ELSE NoConfig]
  /\ attrs = [f \in Fields |-> "none"]
  /\ \E v1 \in {"bad", "ok"}, v2 \in {"", "bad"} :
       value = [f \in TextFields |-> IF f = "f1" THEN v1 ELSE v2]
  /\ checked = [f \in CheckFields |-> FALSE]
  /\ validationState = <<>>
  /\ asyncValidationPromises = <<>>
  /\ cache = <<>>
  /\ now = 1
  /\ lastSweep = 1
  /\ calls = [c \in FormCalls |-> IdleCall]
  /\ queue = <<>>
  /\ syncOpen = FALSE
  /\ epoch = 0
  /\ form = NoForm
  /\ InitHost

NextErr ==
  \/ StartValidate
  \/ StartValidateGroup("g1")
  \/ Microtask
  \/ \E c \in FormCalls : ValidatorResolves(c)
  \/ \E c \in FormCalls : ValidatorRejects(c)
  \/ \E v \in {"bad", "ok"} : SetValue("f1", v)

SpecErr == InitErr /\ [][NextErr]_vars

----------------------------------------------------------------------------
(* The life of the instance: validations, reset(), destroy(), and the
   animation frames that flush the batched updates *)

InitLife ==
  /\ options = [useNativeValidation |-> TRUE]
  /\ \E r1 \in {<<"required">>, <<"lookup">>}, g1 \in {NoGroup, "g1"} :
       fieldRegistry = [f \in Fields |->
                          IF f = "f1" THEN Config(r1, NoCond, g1) ELSE NoConfig]
  /\ attrs = [f \in Fields |-> "none"]
  /\ \E v \in {"", "bad"} : value = [f \in TextFields |-> IF f = "f1" THEN v ELSE ""]
  /\ checked = [f \in CheckFields |-> FALSE]
  /\ validationState = <<>>
  /\ asyncValidationPromises = <<>>
  /\ cache = <<>>
  /\ now = 1
  /\ lastSweep = 1
  /\ calls = [c \in UserCalls \cup FormCalls |-> IdleCall]
  /\ queue = <<>>
  /\ syncOpen = FALSE
  /\ epoch = 0
  /\ form = NoForm
  /\ InitHost

NextLife ==
  \/ \E c \in UserCalls : StartValidateField(c, "f1")
  \/ StartValidate
  \/ StartValidateAllGroups
  \/ StartValidateGroup("g1")
  \/ Microtask
  \/ \E c \in UserCalls \cup FormCalls : ValidatorResolves(c)
  \/ \E c \in UserCalls \cup FormCalls : ValidatorAborts(c)
  \/ Reset
  \/ Destroy
  \/ Frame

SpecLife == InitLife /\ [][NextLife]_vars

----------------------------------------------------------------------------
(* Submission: the submit handler over the whole-form pass *)

(* focusFirstInvalid: the fields whose validation-state entry is invalid, in
   the order of the entries of the map *)
InvalidFields(vs) ==
  LET bad == SelectSeq(vs, LAMBDA e : ~e.isValid)
  IN [n \in 1..Len(bad) |-> bad[n].key]

(* AccessibilityManager.focusFirstInvalid on fields that are all focusable
   and in the viewport: the first of the array takes the focus *)
focusFirstInvalid(vs) ==
  IF InvalidFields(vs) = <<>> THEN "" ELSE Head(InvalidFields(vs))

(* the earliest field of the form whose recorded outcome is invalid *)
FirstInvalidInForm(vs) ==
  LET bad == SelectSeq(FieldOrder, LAMBDA f : MapHas(vs, f) /\ ~MapGet(vs, f).isValid)
  IN IF bad = <<>> THEN "" ELSE Head(bad)

(* handleFormSubmit after `await this.validate()` *)
ResumeHandleFormSubmit(sub, w) ==
  LET isValid == w.form.result = "true"
  IN [sub EXCEPT !.pc = "done",
                 !.valid = w.form.result,
                 !.submitted = isValid /\ ~options.preventSubmit,
                 !.focus = IF ~isValid /\ options.focusInvalid
                             THEN focusFirstInvalid(w.vs) ELSE "",
                 !.first = FirstInvalidInForm(w.vs)]

(* the submit event: handleFormSubmit up to its await *)
SubmitEvent ==
  /\ CanRunTask
  /\ ~isDestroyed
  /\ submit.pc = "idle"
  /\ form.pc = "idle"
  /\ Apply(Notify(validateAllFields(World)))
  /\ syncOpen' = FALSE
  /\ submit' = [submit EXCEPT !.pc = "validating", !.prevented = TRUE]
  /\ UNCHANGED <<options, fieldRegistry, attrs, value, checked, now, lastSweep, epoch,
                 isDestroyed, instances, timers, tree>>

(* one turn of the microtask queue while a submit handler may be waiting: the
   handler goes on once the promise of validate() has resolved *)
SubmitMicrotask ==
  /\ queue # <<>>
  /\ LET h == Head(queue)
         w == [World EXCEPT !.queue = Tail(queue)]
     IN IF h.t = "submit" /\ h.k = 0
          THEN Apply(w) /\ submit' = ResumeHandleFormSubmit(submit, w)
          ELSE LET w1 == MicrotaskStep(h, w)
               IN /\ Apply(IF submit.pc = "validating" /\ form.pc # "done"
                                                       /\ w1.form.pc = "done"
                             THEN [w1 EXCEPT !.queue = Append(@, FormItem("submit", 0))]
                             ELSE w1)
                  /\ submit' = submit
  /\ syncOpen' = FALSE
  /\ UNCHANGED <<options, fieldRegistry, attrs, value, checked, now, lastSweep, epoch,
                 isDestroyed, instances, timers, tree>>

InitSubmit ==
  /\ \E p \in BOOLEAN :
       options = [useNativeValidation |-> TRUE, preventSubmit |-> p, focusInvalid |-> TRUE]
  /\ \E r1 \in {<<"required">>, <<"lookup">>} :
       fieldRegistry = [f \in Fields |->
                          IF f = "f1" THEN Config(r1, NoCond, NoGroup)
                          ELSE IF f = "f2" THEN Config(<<"required">>, NoCond, NoGroup)
                          ELSE NoConfig]
  /\ attrs = [f \in Fields |-> "none"]
  /\ \E v1 \in {"bad", "ok"}, v2 \in {"", "ok"} :
       value = [f \in TextFields |-> IF f = "f1" THEN v1 ELSE v2]
  /\ checked = [f \in CheckFields |-> FALSE]
  /\ validationState = <<>>
  /\ asyncValidationPromises = <<>>
  /\ cache = <<>>
  /\ now = 1
  /\ lastSweep = 1
  /\ calls = [c \in UserCalls \cup FormCalls |-> IdleCall]
  /\ queue = <<>>
  /\ syncOpen = FALSE
  /\ epoch = 0
  /\ form = NoForm
  /\ InitHost

NextSubmit ==
  \/ SubmitEvent
  \/ SubmitMicrotask
  \/ \E c \in UserCalls, f \in TextFields : StartValidateField(c, f)
  \/ \E c \in UserCalls \cup FormCalls : ValidatorResolves(c)
  \/ \E f \in TextFields, v \in {"", "bad", "ok"} : SetValue(f, v)
  \/ Frame

SpecSubmit == InitSubmit /\ [][NextSubmit]_vars

----------------------------------------------------------------------------
(* The periodic sweep on an instance configured with small maxima: two fields
   with asynchronous rules, the clock and the cleanup interval *)

InitSweep ==
  /\ options = [useNativeValidation |-> FALSE, maxAsyncPromises |-> 1,
                maxStateEntries |-> 1]
  /\ fieldRegistry = [f \in Fields |->
                        IF f \in TextFields THEN Config(<<"lookup">>, NoCond, NoGroup)
                        ELSE NoConfig]
  /\ attrs = [f \in Fields |-> "none"]
  /\ value = [f \in TextFields |-> "bad"]
  /\ checked = [f \in CheckFields |-> FALSE]
  /\ validationState = <<>>
  /\ asyncValidationPromises = <<>>
  /\ cache = <<>>
  /\ now = 1
  /\ lastSweep = 1
  /\ calls = [c \in UserCalls \cup FormCalls |-> IdleCall]
  /\ queue = <<>>
  /\ syncOpen = FALSE
  /\ epoch = 0
  /\ form = NoForm
  /\ InitHost

NextSweep ==
  \/ \E c \in UserCalls, f \in TextFields : StartValidateField(c, f)
  \/ StartValidate
  \/ Microtask
  \/ \E c \in UserCalls \cup FormCalls : ValidatorResolves(c)
  \/ Tick
  \/ Sweep

SpecSweep == InitSweep /\ [][NextSweep]_vars

----------------------------------------------------------------------------
(* Garbage collection of the in-flight map: one field with an asynchronous
   rule whose validator may never answer, the clock and the cleanup
   interval.  The event loop drains the microtask queue, time passes, and the
   interval timer fires when it is due. *)

(* the modelled time ends at MaxTime: a validation starts early enough for the
   age threshold to pass before the interval fires within that time *)
StartInTime(c, f) ==
  /\ now + AsyncMaxAge < MaxTime
  /\ StartValidateField(c, f)

InitGC ==
  /\ options = [useNativeValidation |-> FALSE]
  /\ fieldRegistry = [f \in Fields |->
                        IF f = "f1" THEN Config(<<"lookup">>, NoCond, NoGroup) ELSE NoConfig]
  /\ attrs = [f \in Fields |-> "none"]
  /\ value = [f \in TextFields |-> IF f = "f1" THEN "bad" ELSE ""]
  /\ checked = [f \in CheckFields |-> FALSE]
  /\ validationState = <<>>
  /\ asyncValidationPromises = <<>>
  /\ cache = <<>>
  /\ now = 1
  /\ lastSweep = 1
  /\ calls = [c \in Calls |-> IdleCall]
  /\ queue = <<>>
  /\ syncOpen = FALSE
  /\ epoch = 0
  /\ form = NoForm
  /\ InitHost

NextGC ==
  \/ \E c \in Calls : StartInTime(c, "f1")
  \/ Microtask
  \/ \E c \in Calls : ValidatorResolves(c)
  \/ \E c \in Calls : ValidatorAborts(c)
  \/ Tick
  \/ Sweep

SpecGC ==
  /\ InitGC /\ [][NextGC]_vars
  /\ WF_vars(Microtask) /\ WF_vars(Tick) /\ WF_vars(Sweep)

----------------------------------------------------------------------------
(* The input listeners of a field: attachFieldListeners and the debounced
   validator *)

(* a listener calls validateField(field) *)
ValidateFromListener(f) ==
  \E c \in Calls :
    /\ FirstIdle(c)
    /\ Apply(Notify(validateField(World, c, f)))

(* history of an input event on f *)
Received(t, f) ==
  [t EXCEPT !.events[f] = @ + 1,
            !.last[f] = now,
            !.burst[f] = IF t.events[f] = 0 THEN TRUE
                         ELSE t.burst[f] /\ now - t.last[f] < Debounce]

(* an input event on field f.  With validateOn 'input' the listener validates
   at once; otherwise, with liveValidation, the debounced validator re-arms
   its timer: clearTimeout, then setTimeout(later, wait) *)
InputEvent(f) ==
  /\ CanRunTask
  /\ ~isDestroyed
  /\ fieldRegistry[f].registered
  /\ f \in timers.listeners
  /\ timers.events[f] < MaxEvents
  /\ IF options.validateOn = "input"
       THEN /\ ValidateFromListener(f)
            /\ timers' = Received(timers, f)
       ELSE /\ timers' = IF options.liveValidation
                           THEN [Received(timers, f) EXCEPT !.deadline[f] = now + Debounce]
                           ELSE Received(timers, f)
            /\ UNCHANGED <<validationState, asyncValidationPromises, cache, calls,
                           queue, form, viewVars>>
  /\ syncOpen' = FALSE
  /\ UNCHANGED <<options, fieldRegistry, attrs, value, checked, now, lastSweep, epoch,
                 isDestroyed, instances, submit, tree>>

(* the debounce timer of field f fires: later() calls the validator *)
TimerFires(f) ==
  /\ CanRunTask
  /\ timers.deadline[f] # 0
  /\ now >= timers.deadline[f]
  /\ ValidateFromListener(f)
  /\ timers' = [timers EXCEPT !.deadline[f] = 0]
  /\ syncOpen' = FALSE
  /\ UNCHANGED <<options, fieldRegistry, attrs, value, checked, now, lastSweep, epoch,
                 isDestroyed, instances, submit, tree>>

(* time passes, once the timers that are due have fired *)
TickTimers ==
  /\ \A f \in Fields : timers.deadline[f] = 0 \/ timers.deadline[f] > now
  /\ Tick

InitLive ==
  /\ \E on \in {"blur", "input", "submit"} :
       options = [useNativeValidation |-> TRUE, validateOn |-> on, liveValidation |-> TRUE]
  /\ \E r1 \in {<<"required">>, <<"lookup">>} :
       fieldRegistry = [f \in Fields |->
                          IF f = "f1" THEN Config(r1, NoCond, NoGroup) ELSE NoConfig]
  /\ attrs = [f \in Fields |-> "none"]
  /\ value = [f \in TextFields |-> ""]
  /\ checked = [f \in CheckFields |-> FALSE]
  /\ validationState = <<>>
  /\ asyncValidationPromises = <<>>
  /\ cache = <<>>
  /\ now = 1
  /\ lastSweep = 1
  /\ calls = [c \in Calls |-> IdleCall]
  /\ queue = <<>>
  /\ syncOpen = FALSE
  /\ epoch = 0
  /\ form = NoForm
  /\ InitHost

NextLive ==
  \/ \E v \in {"", "bad"} : SetValue("f1", v)
  \/ InputEvent("f1")
  \/ TimerFires("f1")
  \/ Microtask
  \/ \E c \in Calls : ValidatorResolves(c)
  \/ TickTimers

SpecLive == InitLive /\ [][NextLive]_vars

----------------------------------------------------------------------------
(* The field registry and the tree: the mutation observer and the periodic
   scan of DOMManager *)

(* the selector [data-validate]:not([data-no-validate]) *)
Matches(t, f) == f \in t.validate /\ f \notin t.noValidate

(* parseFieldConfig of a field of the page: its data-validate names one rule *)
ParsedConfig == Config(<<"required">>, NoCond, NoGroup)

(* parseFieldConfig of field f: parseValidationRules of the value its
   data-validate attribute has in the tree t *)
parseFieldConfig(t, f) == [ParsedConfig EXCEPT !.rules = t.rules[f]]

(* createErrorContainer, on the number n of error elements this manager has
   placed beside the field so far (MaxContainers stands for that many or
   more): the element the data-error-target selector finds is used where
   there is one, and a new element is placed beside the field otherwise *)
createErrorContainer(n, target) ==
  IF target = "found" THEN n
  ELSE IF n < MaxContainers THEN n + 1 ELSE MaxContainers

(* attachField on the state s = [reg, dom, containers], in the tree t *)
attachField(s, f, t) ==
  IF s.reg[f].registered THEN s
  ELSE [s EXCEPT !.reg[f] = parseFieldConfig(t, f), !.dom.isValid[f] = "null",
                 !.containers[f] = createErrorContainer(@, t.errorTarget[f])]

(* detachField *)
detachField(s, f) ==
  IF s.reg[f].registered
    THEN [s EXCEPT !.dom = clearError(s.dom, f), !.reg[f] = NoConfig]
    ELSE s

(* processChildListMutation / processAttributeMutation on one record m, read
   against the attributes the node has when the record is processed *)
ProcessMutation(s, m, t) ==
  CASE m.type = "added" -> IF Matches(t, m.f) THEN attachField(s, m.f, t) ELSE s
    [] m.type = "removed" -> IF m.f \in t.validate THEN detachField(s, m.f) ELSE s
    [] OTHER -> IF Matches(t, m.f) THEN attachField(s, m.f, t) ELSE detachField(s, m.f)

(* whether the record counts as a change *)
HasChanges(m, t) ==
  CASE m.type = "added" -> Matches(t, m.f)
    [] m.type = "removed" -> m.f \in t.validate
    [] OTHER -> TRUE

RECURSIVE ProcessAll(_, _, _)
ProcessAll(s, ms, t) ==
  IF ms = <<>> THEN s ELSE ProcessAll(ProcessMutation(s, Head(ms), t), Tail(ms), t)

(* processMutations: every record in order, then the notification update *)
processMutations(s, ms, t) ==
  LET s1 == ProcessAll(s, ms, t)
  IN IF \E n \in 1..Len(ms) : HasChanges(ms[n], t)
       THEN [s1 EXCEPT !.dom = scheduleUpdate(s1.dom, [op |-> "fieldsChanged", f |-> "",
                                                       message |-> ""])]
       ELSE s1

RECURSIVE ScanAll(_, _, _)
(* scanForNewFields: every matching field of the form that has no
   registration is attached *)
ScanAll(s, fields, t) ==
  IF fields = <<>> THEN s
  ELSE ScanAll(IF Head(fields) \in t.inForm /\ Matches(t, Head(fields))
                 THEN attachField(s, Head(fields), t) ELSE s,
               Tail(fields), t)

(* the observer's record of a change of the tree, when the tree is observed *)
Observe(t, type, f) ==
  [t EXCEPT !.pending = IF t.observer THEN Append(@, [type |-> type, f |-> f]) ELSE @,
            !.scanned = FALSE]

(* a script changes the form: a field enters it or leaves it, or one of the
   attributes data-validate and data-no-validate of a field of the form is
   set or removed *)
ChangeTree ==
  /\ CanRunScript
  /\ Len(tree.pending) < MaxMutations
  /\ \E f \in TextFields :
       \/ /\ f \notin tree.inForm
          /\ tree' = Observe([tree EXCEPT !.inForm = @ \cup {f}], "added", f)
       \/ /\ f \in tree.inForm
          /\ tree' = Observe([tree EXCEPT !.inForm = @ \ {f}], "removed", f)
       \/ /\ f \in tree.inForm
          /\ \/ tree' = Observe([tree EXCEPT !.validate =
                                   IF f \in @ THEN @ \ {f} ELSE @ \cup {f}], "attr", f)
             \/ tree' = Observe([tree EXCEPT !.noValidate =
                                   IF f \in @ THEN @ \ {f} ELSE @ \cup {f}], "attr", f)
  /\ UNCHANGED <<options, fieldRegistry, attrs, value, checked, validationState,
                 asyncValidationPromises, cache, now, lastSweep, calls, queue,
                 syncOpen, epoch, form, isDestroyed, instances, submit, timers, viewVars>>

(* an attribute of a field outside the form changes: nobody observes it *)
ChangeOutside ==
  /\ CanRunScript
  /\ \E f \in TextFields :
       /\ f \notin tree.inForm
       /\ \/ tree' = [tree EXCEPT !.validate = IF f \in @ THEN @ \ {f} ELSE @ \cup {f}]
          \/ tree' = [tree EXCEPT !.noValidate = IF f \in @ THEN @ \ {f} ELSE @ \cup {f}]
  /\ UNCHANGED <<options, fieldRegistry, attrs, value, checked, validationState,
                 asyncValidationPromises, cache, now, lastSweep, calls, queue,
                 syncOpen, epoch, form, isDestroyed, instances, submit, timers, viewVars>>

(* the timer of the throttled mutation handler fires, 100 ms after the last
   record: the frame of the batch before has run by then *)
ProcessMutations ==
  /\ CanRunTask
  /\ tree.pending # <<>>
  /\ ~dom.scheduled
  /\ LET s == processMutations([reg |-> fieldRegistry, dom |-> dom,
                                 containers |-> tree.containers], tree.pending, tree)
     IN /\ fieldRegistry' = s.reg
        /\ dom' = s.dom
        /\ tree' = [tree EXCEPT !.pending = <<>>, !.containers = s.containers]
  /\ UNCHANGED <<options, attrs, value, checked, validationState,
                 asyncValidationPromises, cache, now, lastSweep, calls, queue,
                 syncOpen, epoch, form, isDestroyed, instances, submit, timers, events>>

(* the interval of the periodic scan fires, where the tree is not observed *)
Scan ==
  /\ CanRunTask
  /\ ~isDestroyed
  /\ ~tree.observer
  /\ ~tree.scanned
  /\ LET s == ScanAll([reg |-> fieldRegistry, dom |-> dom,
                        containers |-> tree.containers], FieldOrder, tree)
     IN /\ fieldRegistry' = s.reg
        /\ dom' = s.dom
        /\ tree' = [tree EXCEPT !.scanned = TRUE, !.containers = s.containers]
  /\ UNCHANGED <<options, attrs, value, checked, validationState,
                 asyncValidationPromises, cache, now, lastSweep, calls, queue,
                 syncOpen, epoch, form, isDestroyed, instances, submit, timers, events>>

(* the data-error-target attribute of a field: absent, a selector that finds
   an element of the document, or a selector that finds none *)
ErrorTargets == {"none", "found", "missing"}

(* initialize(form): scanFields, then setupMutationObserver, on a page whose
   text fields are in the form or not, with or without the two attributes *)
InitTree ==
  /\ options = [useNativeValidation |-> TRUE]
  /\ \E obs \in BOOLEAN, inF \in SUBSET TextFields, val \in SUBSET TextFields,
        noVal \in SUBSET TextFields, target \in ErrorTargets :
       /\ tree = [observer |-> obs, inForm |-> inF, validate |-> val,
                  noValidate |-> noVal, rules |-> [f \in Fields |-> <<"required">>],
                  errorTarget |-> [f \in Fields |-> IF f = "f1" THEN target ELSE "none"],
                  containers |-> [f \in Fields |->
                                    IF f \in inF /\ f \in val /\ f \notin noVal
                                      THEN createErrorContainer(
                                             0, IF f = "f1" THEN target ELSE "none")
                                      ELSE 0],
                  pending |-> <<>>, scanned |-> TRUE,
                  name |-> [f \in Fields |-> f]]
       /\ fieldRegistry = [f \in Fields |->
                             IF f \in inF /\ f \in val /\ f \notin noVal
                               THEN ParsedConfig ELSE NoConfig]
  /\ attrs = [f \in Fields |-> "none"]
  /\ value = [f \in TextFields |-> ""]
  /\ checked = [f \in CheckFields |-> FALSE]
  /\ validationState = <<>>
  /\ asyncValidationPromises = <<>>
  /\ cache = <<>>
  /\ now = 1
  /\ lastSweep = 1
  /\ calls = [c \in Calls |-> IdleCall]
  /\ queue = <<>>
  /\ syncOpen = FALSE
  /\ epoch = 0
  /\ form = NoForm
  /\ isDestroyed = FALSE
  /\ instances = OneInstance
  /\ dom = NoDom
  /\ events = NoEvents
  /\ submit = NoSubmit
  /\ timers = attachEventListeners(fieldRegistry)

NextTree ==
  \/ ChangeTree
  \/ ChangeOutside
  \/ ProcessMutations
  \/ Scan
  \/ Frame

SpecTree == InitTree /\ [][NextTree]_vars

----------------------------------------------------------------------------
(* The configuration of a registered field and its data-validate attribute:
   one observed field, whose attribute a script rewrites, and its validation *)

AttrRuleLists == {<<"required">>, <<"email">>, <<"required", "email">>}

(* a script gives the data-validate attribute of field f another value *)
ChangeRules(f) ==
  /\ CanRunScript
  /\ f \in tree.inForm
  /\ Len(tree.pending) < MaxMutations
  /\ \E r \in AttrRuleLists :
       /\ r # tree.rules[f]
       /\ tree' = Observe([tree EXCEPT !.rules[f] = r], "attr", f)
  /\ UNCHANGED <<options, fieldRegistry, attrs, value, checked, validationState,
                 asyncValidationPromises, cache, now, lastSweep, calls, queue,
                 syncOpen, epoch, form, isDestroyed, instances, submit, timers, viewVars>>

InitConfig ==
  /\ options = [useNativeValidation |-> FALSE]
  /\ \E r \in AttrRuleLists :
       fieldRegistry = [f \in Fields |->
                          IF f = "f1" THEN Config(r, NoCond, NoGroup) ELSE NoConfig]
  /\ attrs = [f \in Fields |-> "none"]
  /\ \E v \in {"", "bad"} : value = [f \in TextFields |-> IF f = "f1" THEN v ELSE ""]
  /\ checked = [f \in CheckFields |-> FALSE]
  /\ validationState = <<>>
  /\ asyncValidationPromises = <<>>
  /\ cache = <<>>
  /\ now = 1
  /\ lastSweep = 1
  /\ calls = [c \in Calls |-> IdleCall]
  /\ queue = <<>>
  /\ syncOpen = FALSE
  /\ epoch = 0
  /\ form = NoForm
  /\ InitHost

NextConfig ==
  \/ ChangeRules("f1")
  \/ ProcessMutations
  \/ \E c \in Calls : StartValidateField(c, "f1")
  \/ Microtask
  \/ Frame

SpecConfig == InitConfig /\ [][NextConfig]_vars

----------------------------------------------------------------------------
(* Properties of the engine on one field (specification Spec) *)

Settled(c) == calls[c].pc = "done"

Quiet == \A c \in Calls : calls[c].pc \in {"idle", "done"}

(* call d is the last request made *)
Latest(d) == calls[d].pc # "idle" /\ \A e \in Calls : e > d => calls[e].pc = "idle"

Recorded(f) ==
  IF MapHas(validationState, f)
    THEN [isValid |-> MapGet(validationState, f).isValid,
          message |-> MapGet(validationState, f).message]
    ELSE Untouched

(* C1: two validations of the same (field, rule), the second started while
   the first's asynchronous validator was still pending: once both have
   settled the recorded state of the field is the outcome of the second
   validator call *)
C1_SecondResultSurfaced ==
  \A c, d \in Calls :
    (/\ c < d /\ Latest(d) /\ Quiet
     /\ calls[c].overlapped /\ calls[c].supBy = d
     /\ calls[c].epoch0 = epoch)
    => Recorded(calls[d].field) = calls[d].expect

(* C2: a cancelled asynchronous validation has rule outcome true, whether
   the validator accepts the signal or is wrapped by the engine *)
C2_CancelledIsValid ==
  \A c \in Calls :
    calls[c].cancelRes # "none" => calls[c].cancelRes = "true"

(* C3: once two requests on a field have both completed, the recorded state
   of the field is the outcome of the later request *)
C3_LatestRequestWins ==
  \A c, d \in Calls :
    (/\ c < d /\ Latest(d) /\ Quiet
     /\ calls[c].field = calls[d].field
     /\ calls[c].epoch0 = epoch
     /\ calls[d].expect # Untouched)
    => Recorded(calls[d].field) = calls[d].expect

(* the same claim on lists of synchronous rules only *)
C3_LatestRequestWinsSync ==
  \A c, d \in Calls :
    (/\ c < d /\ Latest(d) /\ Quiet
     /\ calls[c].field = calls[d].field
     /\ calls[c].epoch0 = epoch
     /\ \A n \in 1..Len(fieldRegistry[calls[d].field].rules) :
          ~isAsyncValidator(fieldRegistry[calls[d].field].rules[n])
     /\ calls[d].expect # Untouched)
    => Recorded(calls[d].field) = calls[d].expect

(* the outcome delivered for rule n of call c is the validator's own answer:
   a synchronous rule, or an asynchronous one whose result was trusted *)
OwnAnswer(c, n) ==
  LET r == calls[c].rules[n]
  IN HasValidator(r) /\ (~isAsyncValidator(r) \/ n \in calls[c].trusted)

(* C6: rules run in declaration order and the pass stops at the first
   failing rule: the message reported is that rule's and no later rule's
   validator is invoked, for synchronous and asynchronous rules alike *)
C6_FailFast ==
  \A c \in Calls :
    LET cl == calls[c]
    IN /\ \A n \in 1..Len(cl.outs) :
            /\ n \in cl.reached
            /\ OwnAnswer(c, n) => cl.outs[n] = ValidatorResult(cl.rules[n], cl.value)
            /\ cl.outs[n] # "true" =>
                 /\ n = Len(cl.outs)
                 /\ cl.pc = "done" /\ cl.out = "false"
                 /\ cl.reported = getErrorMessage(cl.rules[n], cl.outs[n])
                 /\ \A m \in cl.reached \cup cl.invoked : m <= n
       /\ \A n \in cl.reached : \A m \in 1..n : m \in cl.reached

(* rules [A, B] with A and B both failing on the value: the pass has ended
   with A's message and B was never run *)
C6_Witness ==
  \E c \in Calls :
    LET cl == calls[c]
    IN /\ cl.pc = "done" /\ Len(cl.rules) = 2
       /\ isAsyncValidator(cl.rules[1]) /\ 1 \in cl.trusted
       /\ ValidatorResult(cl.rules[1], cl.value) # "true"
       /\ ValidatorResult(cl.rules[2], cl.value) # "true"
       /\ cl.reported = "taken" /\ cl.invoked = {1}

(* the condition of the field of call c was unsatisfied when c began *)
CondUnmet(c) ==
  LET cfg == fieldRegistry[calls[c].field]
  IN cfg.registered /\ cfg.validateIf # NoCond /\ cfg.validateIf[1] \in Fields
     /\ calls[c].condValue # cfg.validateIf[2]

NoRules(c) ==
  fieldRegistry[calls[c].field].registered /\ fieldRegistry[calls[c].field].rules = <<>>

NativeViolation(c) == options.useNativeValidation /\ calls[c].validity # "valid"

(* C7 as stated: a field with no rules or an unsatisfied condition always
   validates to valid, no validator invoked, whatever the options *)
C7_SkippedFieldIsValid ==
  \A c \in Calls :
    (Settled(c) /\ (NoRules(c) \/ CondUnmet(c)))
    => calls[c].out = "true" /\ calls[c].invoked = {}

(* C7 amended: the same unless the native check reports a violation; and
   with the condition satisfied the rule list is run, a failing first
   synchronous rule making the field invalid *)
C7_SkippedFieldIsValidUnlessNative ==
  \A c \in Calls :
    LET cl == calls[c]
        cfg == fieldRegistry[cl.field]
    IN (cl.pc # "idle" /\ ~NativeViolation(c)) =>
         /\ (NoRules(c) \/ CondUnmet(c)) =>
              /\ cl.pc = "done" /\ cl.out = "true"
              /\ cl.invoked = {} /\ cl.reached = {}
         /\ (cfg.registered /\ ~CondUnmet(c) /\ cfg.rules # <<>>) =>
              /\ 1 \in cl.reached
              /\ (HasValidator(cfg.rules[1]) /\ ~isAsyncValidator(cfg.rules[1])) =>
                   1 \in cl.invoked
              /\ (cl.pc = "done" /\ ~isAsyncValidator(cfg.rules[1])
                    /\ ValidatorResult(cfg.rules[1], cl.value) # "true") =>
                   cl.out = "false"

(* an empty conditional field passed while the box was unticked and failed
   its required rule once the box was ticked *)
C7_Witness ==
  \E c, d \in Calls :
    /\ c < d /\ Settled(c) /\ Settled(d)
    /\ CondUnmet(c) /\ calls[c].out = "true"
    /\ ~CondUnmet(d) /\ calls[d].condValue = "true"
    /\ calls[d].value = "" /\ calls[d].out = "false"
    /\ calls[d].reported = "This field is required"
    /\ ~NativeViolation(c) /\ ~NativeViolation(d)

(* C8: with native validation enabled and a native violation, validateField
   answers invalid with the native message and runs no custom rule *)
C8_NativeShortCircuit ==
  \A c \in Calls :
    (calls[c].pc # "idle" /\ NativeViolation(c)) =>
      /\ calls[c].pc = "done" /\ calls[c].out = "false"
      /\ calls[c].reported = getNativeValidationMessage(calls[c].validity)
      /\ calls[c].invoked = {} /\ calls[c].reached = {}

(* a type mismatch on a field that has custom rules *)
C8_Witness ==
  \E c \in Calls :
    /\ Settled(c) /\ NativeViolation(c) /\ calls[c].validity = "typeMismatch"
    /\ fieldRegistry[calls[c].field].rules # <<>>
    /\ calls[c].out = "false"
    /\ MapHas(validationState, calls[c].field)
    /\ ~MapGet(validationState, calls[c].field).isValid

----------------------------------------------------------------------------
(* Properties of the in-flight map and the cache (specification SpecTimed) *)

(* the in-flight entry that carries the token of call c's present invocation *)
OwnsEntry(c) ==
  \E n \in 1..Len(asyncValidationPromises) :
    asyncValidationPromises[n].id = <<c, calls[c].i>>

(* C4: at most one in-flight entry per (field, rule) key; a new validation
   for a key that has an entry aborts the entry's handle and replaces it, and
   the superseded invocation's result is never used as a rule outcome nor
   written to the cache *)
C4_OneInFlightPerKey ==
  /\ \A n, m \in 1..Len(asyncValidationPromises) :
       asyncValidationPromises[n].key = asyncValidationPromises[m].key => n = m
  /\ \A c \in Calls :
       (calls[c].pc \in {"pending", "settled"} /\ calls[c].superseded) =>
         calls[c].sig /\ ~OwnsEntry(c)
  /\ \A c \in Calls : ~calls[c].staleUsed
  /\ \A c \in Calls :
       (calls[c].pc = "ret" /\ isAsyncValidator(calls[c].rules[calls[c].i])
          /\ calls[c].i \in calls[c].invoked
          /\ calls[c].superseded /\ calls[c].settle = "value") =>
         calls[c].res = "true" /\ calls[c].i \notin calls[c].trusted

(* a superseded validator answered with a failure after its successor was
   started, and the answer was dropped *)
C4_Witness ==
  \E c, d \in Calls :
    /\ calls[c].superseded /\ calls[c].supBy = d
    /\ calls[c].settle = "value" /\ calls[c].vres = "false"
    /\ calls[c].pc = "ret" /\ calls[c].res = "true"
    /\ calls[d].pc = "pending" /\ OwnsEntry(d)

SameKey(c, d) ==
  /\ calls[c].i > 0 /\ calls[d].i > 0
  /\ isAsyncValidator(calls[c].rules[calls[c].i])
  /\ calls[c].i \in calls[c].invoked /\ calls[d].i \in calls[d].invoked
  /\ getCacheKey(calls[c].rules[calls[c].i], calls[c].value)
       = getCacheKey(calls[d].rules[calls[d].i], calls[d].value)

(* C5 as stated: two validations with the same (validator, value, params)
   less than the time to live apart, with no cache clear between them, never
   both invoke the validator *)
C5_AtMostOneInvocation ==
  \A c, d \in Calls :
    (c < d /\ SameKey(c, d) /\ calls[c].epoch = calls[d].epoch)
    => calls[d].startedAt - calls[c].startedAt >= CacheTTL

(* C5 amended: the validator of an asynchronous rule is invoked exactly when
   no identical validation had its result cached since the last clear and
   less than the time to live before; otherwise the cached result is the
   rule's outcome *)
C5_CachedResultNotReinvoked ==
  \A c \in Calls : \A n \in calls[c].reached :
    LET cl == calls[c]
        r == cl.rules[n]
    IN (HasValidator(r) /\ isAsyncValidator(r)) =>
         /\ n \in cl.invoked <=> n \notin cl.hits
         /\ n \in cl.invoked => ~cl.prior
         /\ n \in cl.hits =>
              \E d \in Calls : /\ d # c
                               /\ calls[d].cachedKey = getCacheKey(r, cl.value)
                               /\ calls[d].cachedEpoch = cl.epoch
                               /\ cl.hitAt - calls[d].cachedAt < CacheTTL
                               /\ (n = cl.i /\ cl.pc \in {"ret", "done"})
                                    => cl.res = ValidatorResult(r, cl.value)

(* one validation was answered from the cache *)
C5_Witness ==
  \E c, d \in Calls :
    /\ calls[c].cachedAt > 0 /\ calls[d].hits # {}
    /\ calls[d].invoked = {} /\ calls[d].pc = "done"
    /\ calls[d].value = "bad" /\ calls[d].out = "false"

----------------------------------------------------------------------------
(* Properties of the form-level passes (specification SpecForm) *)

Registered == {f \in Fields : fieldRegistry[f].registered}

DeclaredGroups == {fieldRegistry[f].group : f \in Registered} \ {NoGroup}

Ungrouped == {f \in Registered : fieldRegistry[f].group = NoGroup}

(* the validateGroup run n of the pass has returned with every one of its
   field validations valid *)
GroupValidated(n) ==
  /\ form.groups[n].pc = "done"
  /\ \A m \in 1..Len(form.groups[n].calls) : calls[form.groups[n].calls[m]].out = "true"

(* C9: validate() with no argument starts one validation per registered field
   before anything else runs (they are all under way in the state the call
   leaves behind), and it resolves true exactly when every one of these
   validations came out valid and every declared group validated *)
C9_WholeFormValidation ==
  form.mode = "all" =>
    /\ Len(form.first) = Cardinality(Registered)
    /\ \A f \in Registered :
         \E n \in 1..Len(form.first) : /\ calls[form.first[n]].field = f
                                       /\ calls[form.first[n]].pc # "idle"
    /\ form.pc = "done" =>
         (form.result = "true" <=>
            /\ \A n \in 1..Len(form.first) : calls[form.first[n]].out = "true"
            /\ \A g \in DeclaredGroups :
                 \E n \in 1..Len(form.groups) : /\ form.groups[n].name = g
                                                /\ GroupValidated(n))

(* a whole-form pass whose field validations were all valid resolved false
   because a group did not validate *)
C9_Witness ==
  /\ form.mode = "all" /\ form.pc = "done" /\ form.result = "false"
  /\ Len(form.first) = Cardinality(TextFields)
  /\ \A n \in 1..Len(form.first) : calls[form.first[n]].out = "true"
  /\ \E n \in 1..Len(form.groups) : ~form.groups[n].valid

(* C10: validateAllGroups() resolves true exactly when the validateGroup of
   every declared group resolved true, and no group's error map, whenever it
   is read, has an entry for a field that declares no group *)
C10_GroupAggregation ==
  /\ (form.mode \in {"all", "groups"} /\ form.pc = "done") =>
       /\ \A g \in DeclaredGroups :
            \E n \in 1..Len(form.groups) : form.groups[n].name = g
       /\ \A n \in 1..Len(form.groups) :
            form.groups[n].pc = "done" /\ (form.groups[n].valid <=> GroupValidated(n))
       /\ form.groupResults <=> \A n \in 1..Len(form.groups) : form.groups[n].valid
  /\ \A g \in GroupArgs \cup {NoGroup} : \A e \in getGroupErrors(validationState, g) :
       \A f \in Ungrouped : e[1] # FieldName(f)
  /\ \A n \in 1..Len(form.groups) : \A e \in form.groups[n].errors :
       \A f \in Ungrouped : e[1] # FieldName(f)

(* validateAllGroups() resolved false over a group with an error map, while a
   field outside every group is recorded invalid *)
C10_Witness ==
  /\ form.mode = "groups" /\ form.pc = "done" /\ ~form.groupResults
  /\ \E n \in 1..Len(form.groups) : form.groups[n].errors # {}
  /\ \E f \in Ungrouped : /\ MapHas(validationState, f)
                           /\ ~MapGet(validationState, f).isValid

----------------------------------------------------------------------------
(* Properties of the passes over failing validators (specification SpecErr) *)

(* the calls of the form-level pass *)
PassCalls ==
  {form.first[n] : n \in 1..Len(form.first)}
    \cup UNION {{form.groups[n].calls[m] : m \in 1..Len(form.groups[n].calls)} :
                 n \in 1..Len(form.groups)}

(* C11: a validator that throws, or whose promise rejects with an error that
   is no cancellation, makes its own field invalid with the validation-error
   message of that rule; every other validation of the same whole-form or
   group pass ends with the outcome its own field calls for, and the pass
   itself ends once they all have *)
C11_ErrorsContained ==
  /\ \A c \in DOMAIN calls :
       calls[c].pc = "done" =>
         IF calls[c].threw # {}
           THEN /\ calls[c].i \in calls[c].threw
                /\ calls[c].out = "false"
                /\ calls[c].reported = ThrownMessage
           ELSE /\ calls[c].out = BoolString(calls[c].expect.isValid)
                /\ calls[c].out = "false" => calls[c].reported = calls[c].expect.message
  /\ \A c \in DOMAIN calls :
       (calls[c].threw # {} /\ calls[c].pc \in {"ret", "done"}) =>
         calls[c].res = ThrownMessage
  /\ form.pc = "done" =>
       /\ \A c \in PassCalls : calls[c].pc = "done"
       /\ (\E c \in PassCalls : calls[c].threw # {}) => form.result = "false"

(* a whole-form pass ended in which one field's validator failed and the
   other field was validated and found valid, and another in which one failed
   by rejection while the sibling was found invalid by its own rule *)
C11_Witness ==
  /\ form.mode = "all" /\ form.pc = "done"
  /\ \E c, d \in PassCalls :
       /\ calls[c].field = "f1" /\ calls[d].field = "f2"
       /\ calls[c].threw # {} /\ calls[c].settle = "rejected"
       /\ calls[c].reported = ThrownMessage
       /\ calls[d].threw = {} /\ calls[d].invoked # {}
       /\ calls[d].out = "false" /\ calls[d].reported = "taken"
       /\ MapGet(validationState, "f1").message = ThrownMessage
       /\ MapGet(validationState, "f2").message = "taken"

----------------------------------------------------------------------------
(* Properties of the instance's life (specification SpecLife) *)

(* C12: a validation call made on a destroyed instance (validate,
   validateField, validateGroup, validateAllGroups) fails with the
   instance-destroyed error: it returns no validity result *)
C12_DestroyedFailsFast ==
  /\ \A c \in DOMAIN calls :
       (calls[c].dead /\ calls[c].pc = "done") => calls[c].out = "destroyed"
  /\ (form.dead /\ form.pc = "done") => form.result = "destroyed"

(* field f is recorded valid *)
RecordedValid(f) == MapHas(validationState, f) /\ MapGet(validationState, f).isValid

(* C13: clearFieldError on a field that is already recorded valid changes
   nothing that can be seen from outside: the recorded state stays as it is
   and no further formguard:valid event is dispatched for the field *)
C13_ClearOnValidIsSilent ==
  [][\A f \in Fields :
       RecordedValid(f) =>
         /\ events'[f].valid = events[f].valid
         /\ (events'[f].invalid = events[f].invalid /\ ~isDestroyed' /\ epoch' = epoch)
              => validationState' = validationState]_vars

(* C14: after a reset() that ran with no validation in flight, and until the
   next validation request, every field is Unvalidated: there is no
   validation-state entry, the in-flight map and the cache are empty, and
   every registration's isValid is null, before and after the frame that
   flushes the batched DOM updates *)
C14_ResetReturnsToUnvalidated ==
  (dom.afterReset /\ ~isDestroyed) =>
    /\ validationState = <<>>
    /\ asyncValidationPromises = <<>>
    /\ cache = <<>>
    /\ \A f \in Fields : fieldRegistry[f].registered => dom.isValid[f] = "null"

(* the part of C14 that does not wait for the frame *)
C14_ResetClearsMaps ==
  (dom.afterReset /\ ~isDestroyed) =>
    /\ validationState = <<>>
    /\ asyncValidationPromises = <<>>
    /\ cache = <<>>
    /\ dom.scheduled => \A f \in Fields : fieldRegistry[f].registered => dom.isValid[f] = "null"

(* C15: when the submit-time validation finds the form invalid, the native
   submit has been prevented, form.submit() is not called, and the focus goes
   to the earliest field in form order whose recorded outcome is invalid *)
C15_InvalidSubmitIntercepted ==
  (submit.pc = "done" /\ submit.valid = "false") =>
    /\ submit.prevented
    /\ ~submit.submitted
    /\ submit.focus = submit.first

(* the part of C15 about the submission itself *)
C15_InvalidSubmitNotSent ==
  (submit.pc = "done" /\ submit.valid = "false") =>
    /\ submit.prevented
    /\ ~submit.submitted

(* the entries of a map as a set *)
Entries(m) == {m[n] : n \in 1..Len(m)}

(* the validator invocation that owns entry e is still waiting for its answer *)
Waiting(e) == calls[e.id[1]].pc = "pending" /\ calls[e.id[1]].i = e.id[2]

(* C16: after each periodic sweep the in-flight map and the validation-state
   map hold at most their configured maxima, no in-flight entry older than
   the age threshold is left, an entry removed for exceeding the maximum
   started no later than any entry that was kept, and the cancellation handle
   of every removed in-flight entry has been invoked *)
C16_SweepBounds ==
  [][lastSweep' # lastSweep =>
       /\ Len(asyncValidationPromises') <= maxAsyncPromises
       /\ Len(validationState') <= maxStateEntries
       /\ \A e \in Entries(asyncValidationPromises') : ~TooOld(e)
       /\ \A e \in Entries(asyncValidationPromises) \ Entries(asyncValidationPromises') :
            /\ Waiting(e) => calls'[e.id[1]].sig
            /\ ~TooOld(e) =>
                 \A k \in Entries(asyncValidationPromises') : e.timestamp <= k.timestamp]_vars

(* C16 without the order of removal by start time *)
C16_SweepBoundsMapOrder ==
  [][lastSweep' # lastSweep =>
       /\ Len(asyncValidationPromises') <= maxAsyncPromises
       /\ Len(validationState') <= maxStateEntries
       /\ \A e \in Entries(asyncValidationPromises') : ~TooOld(e)
       /\ \A e \in Entries(asyncValidationPromises) \ Entries(asyncValidationPromises') :
            Waiting(e) => calls'[e.id[1]].sig]_vars

(* C17: on a live instance no in-flight entry stays in the map forever: the
   entry of every validator invocation is eventually removed, even when the
   validator never answers *)
C17_EntriesCollected ==
  \A c \in Calls : OwnsEntry(c) ~> ~OwnsEntry(c)

(* the validator of call c has not answered and does not know of any abort
   until the sweep removes its entry and aborts it *)
C17_Witness ==
  \E c \in Calls :
    /\ calls[c].pc = "pending"
    /\ calls[c].sig
    /\ ~calls[c].superseded
    /\ epoch = 0
    /\ ~OwnsEntry(c)
    /\ now - calls[c].startedAt > AsyncMaxAge

(* the step is the animation frame callback of a waiting batch, and it leaves
   no update behind *)
FrameStep == dom.scheduled /\ ~dom'.scheduled /\ dom'.batched = <<>>

(* C18: the error text, the CSS classes and the ARIA flags of the fields
   change only in the animation frame callback, which applies every queued
   write: no write of a validation pass reaches the DOM before that frame *)
C18_WritesWaitForFrame ==
  [][(dom'.text # dom.text \/ dom'.classes # dom.classes \/ dom'.aria # dom.aria)
       => FrameStep]_vars

(* C18 for the error text and the CSS classes alone *)
C18_TextAndClassesWaitForFrame ==
  [][(dom'.text # dom.text \/ dom'.classes # dom.classes) => FrameStep]_vars

(* the validation passes the listeners of field f have started *)
Passes(f) == Cardinality({c \in Calls : calls[c].pc # "idle" /\ calls[c].field = f})

(* the debounce window of the last input event on f has gone by and no timer
   of f is left to fire *)
BurstOver(f) ==
  /\ now >= timers.last[f] + Debounce
  /\ timers.deadline[f] = 0 \/ timers.deadline[f] > now

(* C19: the input events of a burst on one field, each within the debounce
   window of the one before, start exactly one validation pass, and the pass
   is started by the timer of the last event: none before the window of the
   last event has gone by, one once it has, whatever validateOn is *)
C19_BurstValidatedOnce ==
  \A f \in Fields :
    (timers.events[f] > 0 /\ timers.burst[f]) =>
      /\ Passes(f) <= 1
      /\ Passes(f) = 1 => now >= timers.last[f] + Debounce
      /\ BurstOver(f) => Passes(f) = 1

(* C19 when validateOn is not 'input' *)
C19_BurstValidatedOnceDebounced ==
  options.validateOn # "input" => C19_BurstValidatedOnce

(* the registry has caught up with the tree: no mutation record waits where
   the tree is observed, a scan has run since the last change where it is not *)
Synced == IF tree.observer THEN tree.pending = <<>> ELSE tree.scanned

(* C20: the registry tracks the tree, with the observer and with the periodic
   scan alike: once it has caught up, a field has a registration exactly when
   it is in the form and matches the validation selector *)
C20_RegistryTracksTree ==
  Synced =>
    \A f \in Fields :
      fieldRegistry[f].registered <=> (f \in tree.inForm /\ Matches(tree, f))

(* C20 in the polling fallback, for the creation of registrations only *)
C20_ScanRegistersNewFields ==
  (~tree.observer /\ tree.scanned) =>
    \A f \in Fields :
      (f \in tree.inForm /\ Matches(tree, f)) => fieldRegistry[f].registered

(* C21: once the mutation of a registered field's data-validate attribute has
   been processed, the next validation of the field runs the rule list the
   attribute now holds *)
C21_ConfigFollowsAttribute ==
  [][\A c \in Calls :
       (calls[c].pc = "idle" /\ calls'[c].pc # "idle" /\ tree.pending = <<>>
          /\ fieldRegistry[calls'[c].field].registered)
         => calls'[c].rules = tree.rules[calls'[c].field]]_vars

(* the configuration of a registered field is the one parsed when it was
   attached, whatever its attribute has become since *)
C21_ConfigKeptFromAttach ==
  [][\A f \in Fields :
       (fieldRegistry[f].registered /\ fieldRegistry'[f].registered)
         => fieldRegistry'[f] = fieldRegistry[f]]_vars

----------------------------------------------------------------------------
(* The validator cache at its capacity: a registry whose cache holds the
   results of many distinct values of one asynchronous rule, the values
   being numbered in the order they were first validated *)

(* the values a step reads or stores: the one of the oldest entry, the one
   of the newest entry, and the next value never validated before *)
CacheInputs(ch) ==
  IF ch = <<>> THEN {1}
  ELSE {ch[1].key[2], ch[Len(ch)].key[2], ch[Len(ch)].key[2] + 1}

(* registry.setCache(cacheKey, result), as executeValidator calls it once an
   asynchronous validator has answered; the validator accepts every value *)
CacheStore ==
  /\ \E v \in CacheInputs(cache) :
       /\ v <= MaxCacheKeys
       /\ cache' = setCache(cache, getCacheKey("lookup", v), "true", now)
  /\ UNCHANGED <<options, fieldRegistry, attrs, value, checked, validationState,
                 asyncValidationPromises, now, lastSweep, calls, queue, syncOpen,
                 epoch, form, hostVars, viewVars>>

(* registry.getFromCache(cacheKey), as executeValidator calls it before an
   asynchronous validator is invoked, for the value validated last *)
CacheLookup ==
  /\ cache # <<>>
  /\ cache' = CacheAfterGet(cache, cache[Len(cache)].key, now)
  /\ cache' # cache
  /\ UNCHANGED <<options, fieldRegistry, attrs, value, checked, validationState,
                 asyncValidationPromises, now, lastSweep, calls, queue, syncOpen,
                 epoch, form, hostVars, viewVars>>

InitCache ==
  /\ options = [useNativeValidation |-> FALSE]
  /\ fieldRegistry = [f \in Fields |->
                        IF f = "f1" THEN Config(<<"lookup">>, NoCond, NoGroup)
                                    ELSE NoConfig]
  /\ attrs = [f \in Fields |-> "none"]
  /\ value = [f \in TextFields |-> ""]
  /\ checked = [f \in CheckFields |-> FALSE]
  /\ validationState = <<>>
  /\ asyncValidationPromises = <<>>
  /\ \E n \in {MaxCacheEntries - 1, MaxCacheEntries} :
       cache = [k \in 1..n |-> [key |-> getCacheKey("lookup", k), result |-> "true",
                                timestamp |-> 1]]
  /\ now = 1
  /\ lastSweep = 1
  /\ calls = [c \in Calls |-> IdleCall]
  /\ queue = <<>>
  /\ syncOpen = FALSE
  /\ epoch = 0
  /\ form = NoForm
  /\ InitHost

NextCache ==
  \/ CacheStore
  \/ CacheLookup
  \/ Tick

SpecCache == InitCache /\ [][NextCache]_vars

----------------------------------------------------------------------------
(* C22: over any sequence of attach, detach, re-attach and mutation events
   the document holds at most one error container per field, and none that
   the manager created for a field whose custom error target exists *)
C22_OneContainerPerField ==
  \A f \in Fields :
    /\ tree.containers[f] <= 1
    /\ tree.errorTarget[f] = "found" => tree.containers[f] = 0

(* the part of C22 on custom targets alone: a field whose data-error-target
   selector finds an element never gets a container of its own *)
C22_CustomTargetReused ==
  \A f \in Fields : tree.errorTarget[f] = "found" => tree.containers[f] = 0

(* a field with an existing custom target is registered after a change of
   the tree *)
C22_CustomTargetWitness ==
  /\ tree.errorTarget["f1"] = "found"
  /\ fieldRegistry["f1"].registered
  /\ ~tree.scanned

----------------------------------------------------------------------------
(* The instances of a page: FormGuard.instances, the constructor that
   appends to it, destroy() that splices out of it, and destroyAll() *)

(* new FormGuard(form) for another form of the page: FormGuard.instances.push *)
NewInstance ==
  /\ CanRunScript
  /\ \E i \in Instances \ {This} :
       /\ i \notin instances.live
       /\ \A k \in 1..Len(instances.tracked) : instances.tracked[k] < i
       /\ instances' = setupLiveRegion(
                          [instances EXCEPT !.tracked = Append(instances.tracked, i),
                                            !.live = instances.live \cup {i}], i)
  /\ UNCHANGED <<options, fieldRegistry, attrs, value, checked, validationState,
                 asyncValidationPromises, cache, now, lastSweep, calls, queue,
                 syncOpen, epoch, form, isDestroyed, submit, timers, tree, viewVars>>

(* the page calls destroy() on another instance *)
DestroyOther ==
  /\ CanRunScript
  /\ \E i \in instances.live \ {This} : instances' = destroy(instances, i)
  /\ UNCHANGED <<options, fieldRegistry, attrs, value, checked, validationState,
                 asyncValidationPromises, cache, now, lastSweep, calls, queue,
                 syncOpen, epoch, form, isDestroyed, submit, timers, tree, viewVars>>

RECURSIVE forEachDestroy(_, _)
(* FormGuard.instances.forEach(instance => instance.destroy()): the callback
   runs on index k of the array as it is when the index is reached, and the
   loop ends at the first index past the array's end *)
forEachDestroy(ins, k) ==
  IF k > Len(ins.tracked) THEN ins
  ELSE forEachDestroy(destroy(ins, ins.tracked[k]), k + 1)

(* destroyAll: the loop, then FormGuard.instances = [] *)
destroyAll(ins) == [forEachDestroy(ins, 1) EXCEPT !.tracked = <<>>]

(* the page calls FormGuard.destroyAll() *)
DestroyAll ==
  /\ CanRunScript
  /\ instances.tracked # <<>>
  /\ instances' = destroyAll(instances)
  /\ IF This \in instances.live /\ This \notin destroyAll(instances).live
       THEN destroyThis
       ELSE UNCHANGED <<options, fieldRegistry, attrs, value, checked, validationState,
                        asyncValidationPromises, cache, now, lastSweep, calls, queue,
                        syncOpen, epoch, form, isDestroyed, submit, timers, tree,
                        viewVars>>

(* processSimpleAnnouncement of live instance i: the text is written to the
   element the instance holds *)
Announce(i) ==
  /\ CanRunTask
  /\ i \in instances.live
  /\ instances.liveRegion[i] # "null"
  /\ instances' = [instances EXCEPT !.lost = @ \/ instances.liveRegion[i] = "detached"]
  /\ UNCHANGED <<options, fieldRegistry, attrs, value, checked, validationState,
                 asyncValidationPromises, cache, now, lastSweep, calls, queue,
                 syncOpen, epoch, form, isDestroyed, submit, timers, tree, viewVars>>

NextAll ==
  \/ \E i \in Instances : Announce(i)
  \/ NewInstance
  \/ DestroyOther
  \/ Destroy
  \/ DestroyAll
  \/ \E c \in Calls : StartValidateField(c, "f1")
  \/ Microtask
  \/ Frame

SpecAll == InitConfig /\ [][NextAll]_vars

----------------------------------------------------------------------------
(* C23: after every setCache call the cache holds at most 100 entries, and an
   insertion that would exceed 100 evicts exactly one entry, the one whose
   key was inserted earliest, whenever that entry was last written *)
C23_CacheEvictsOldest ==
  [][LET new == MapKeys(cache') \ MapKeys(cache)
     IN /\ Len(cache') <= MaxCacheEntries
        /\ (new # {} /\ Len(cache) = MaxCacheEntries)
             => /\ MapKeys(cache) \ MapKeys(cache') = {cache[1].key}
                /\ SubSeq(cache', 1, Len(cache') - 1) = Tail(cache)
                /\ Len(cache') = MaxCacheEntries]_vars

(* a full cache that has evicted its first value for a value stored later,
   and still holds entries written before the current time *)
C23_Witness ==
  /\ Len(cache) = MaxCacheEntries
  /\ ~MapHas(cache, getCacheKey("lookup", 1))
  /\ MapHas(cache, getCacheKey("lookup", MaxCacheEntries + 1))
  /\ \E n \in 1..Len(cache) : cache[n].timestamp < now

----------------------------------------------------------------------------
(* Blur on the fields of a form that changes: the listeners of the fields
   the instance was constructed with, and the fields that enter later *)

(* a blur event on field f, a field of the form.  With validateOn 'blur' the
   listener attachFieldListeners added calls validateField; a field without
   the listener has nothing to run *)
BlurEvent(f) ==
  /\ CanRunTask
  /\ ~isDestroyed
  /\ f \in tree.inForm
  /\ timers.blurs[f] < MaxEvents
  /\ IF options.validateOn = "blur" /\ f \in timers.listeners
       THEN ValidateFromListener(f)
       ELSE UNCHANGED <<validationState, asyncValidationPromises, cache, calls,
                        queue, form, viewVars>>
  /\ timers' = [timers EXCEPT !.blurs[f] = @ + 1]
  /\ syncOpen' = FALSE
  /\ UNCHANGED <<options, fieldRegistry, attrs, value, checked, now, lastSweep, epoch,
                 isDestroyed, instances, submit, tree>>

(* a script inserts field f, which carries data-validate, into the form *)
EnterForm(f) ==
  /\ CanRunScript
  /\ f \notin tree.inForm
  /\ Matches(tree, f)
  /\ Len(tree.pending) < MaxMutations
  /\ tree' = Observe([tree EXCEPT !.inForm = @ \cup {f}], "added", f)
  /\ UNCHANGED <<options, fieldRegistry, attrs, value, checked, validationState,
                 asyncValidationPromises, cache, now, lastSweep, calls, queue,
                 syncOpen, epoch, form, isDestroyed, instances, submit, timers,
                 viewVars>>

(* a page whose form holds field f1 when the instance is constructed, with
   the default options; field f2 carries data-validate outside the form *)
InitBlur ==
  /\ options = [useNativeValidation |-> FALSE, validateOn |-> "blur",
                liveValidation |-> TRUE]
  /\ fieldRegistry = [f \in Fields |-> IF f = "f1" THEN ParsedConfig ELSE NoConfig]
  /\ attrs = [f \in Fields |-> "none"]
  /\ value = [f \in TextFields |-> ""]
  /\ checked = [f \in CheckFields |-> FALSE]
  /\ validationState = <<>>
  /\ asyncValidationPromises = <<>>
  /\ cache = <<>>
  /\ now = 1
  /\ lastSweep = 1
  /\ calls = [c \in Calls |-> IdleCall]
  /\ queue = <<>>
  /\ syncOpen = FALSE
  /\ epoch = 0
  /\ form = NoForm
  /\ isDestroyed = FALSE
  /\ instances = OneInstance
  /\ dom = NoDom
  /\ events = NoEvents
  /\ submit = NoSubmit
  /\ timers = attachEventListeners(fieldRegistry)
  /\ tree = [TreeOf(fieldRegistry) EXCEPT !.validate = TextFields]

NextBlur ==
  \/ EnterForm("f2")
  \/ \E f \in TextFields, v \in {"", "ok"} : SetValue(f, v)
  \/ ProcessMutations
  \/ \E f \in TextFields : BlurEvent(f)
  \/ Microtask
  \/ Frame

SpecBlur == InitBlur /\ [][NextBlur]_vars

----------------------------------------------------------------------------
(* the instances FormGuard.instances holds *)
Tracked == {instances.tracked[k] : k \in 1..Len(instances.tracked)}

(* C24: after destroyAll() every instance that was tracked is destroyed and
   the list of tracked instances is empty, however many instances are live *)
C24_DestroyAllDestroysAll ==
  [][(Len(instances.tracked) > 1 /\ instances'.tracked = <<>>)
       => /\ instances'.live \cap Tracked = {}
          /\ (This \in Tracked => isDestroyed')]_vars

(* the part of C24 that holds: destroyAll() leaves the list empty, and it
   destroys the instance that was tracked first *)
C24_DestroyAllEmptiesList ==
  [][(Len(instances.tracked) > 1 /\ instances'.tracked = <<>>)
       => instances.tracked[1] \notin instances'.live]_vars

----------------------------------------------------------------------------
(* The error queries of the instance on a form whose fields come and go *)

(* getErrors: an object with one property per name, written in the order of
   the validation state, for the entries that are invalid and carry a
   message; a later entry of the same name overwrites the earlier one *)
getErrors(vs) ==
  LET bad == SelectSeq(vs, LAMBDA e : ~e.isValid /\ e.message # "")
  IN [name \in {FieldName(bad[n].key) : n \in 1..Len(bad)} |->
        LET last == CHOOSE n \in 1..Len(bad) :
                      /\ FieldName(bad[n].key) = name
                      /\ \A m \in n + 1..Len(bad) : FieldName(bad[m].key) # name
        IN bad[last].message]

(* getErrorCount: Object.keys(this.getErrors()).length *)
getErrorCount(vs) == Cardinality(DOMAIN getErrors(vs))

(* a script removes field f from the form *)
LeaveForm(f) ==
  /\ CanRunScript
  /\ f \in tree.inForm
  /\ Len(tree.pending) < MaxMutations
  /\ tree' = Observe([tree EXCEPT !.inForm = @ \ {f}], "removed", f)
  /\ UNCHANGED <<options, fieldRegistry, attrs, value, checked, validationState,
                 asyncValidationPromises, cache, now, lastSweep, calls, queue,
                 syncOpen, epoch, form, isDestroyed, instances, submit, timers,
                 viewVars>>

NextErrors ==
  \/ \E f \in TextFields : LeaveForm(f)
  \/ EnterForm("f2")
  \/ \E f \in TextFields, v \in {"", "ok"} : SetValue(f, v)
  \/ ProcessMutations
  \/ \E f \in TextFields : BlurEvent(f)
  \/ Microtask
  \/ Frame

SpecErrors == InitBlur /\ [][NextErrors]_vars

----------------------------------------------------------------------------
(* a blur event reaches field f in this step *)
Blurred(f) == timers'.blurs[f] = timers.blurs[f] + 1

(* validateField(f) starts in this step *)
ValidationStarts(f) ==
  \E c \in Calls : calls[c].pc = "idle" /\ calls'[c].pc # "idle" /\ calls'[c].field = f

(* C25: a field with the validation attribute that entered the form after
   the instance was constructed, once the DOM manager has registered it, is
   validated on its own blur event like the fields present at construction *)
C25_AddedFieldValidatedOnBlur ==
  [][\A f \in TextFields :
       (Blurred(f) /\ fieldRegistry[f].registered /\ tree.pending = <<>>
          /\ \E c \in Calls : calls[c].pc = "idle")
         => ValidationStarts(f)]_vars

(* the part of C25 that holds: the fields present at construction, which have
   the blur listener, are validated on blur *)
C25_ListenerValidatesOnBlur ==
  [][\A f \in TextFields :
       (Blurred(f) /\ f \in timers.listeners /\ \E c \in Calls : calls[c].pc = "idle")
         => ValidationStarts(f)]_vars

----------------------------------------------------------------------------
(* Messages and the language of the instance: field f1 carries
   data-validate="required|email", the instance speaks English or Spanish *)

Languages == {"en", "es"}

InitLang ==
  /\ \E lang \in Languages :
       options = [useNativeValidation |-> FALSE, language |-> lang]
  /\ \E r \in {<<"required", "email">>, <<"lookup">>} :
       fieldRegistry = [f \in Fields |->
                          IF f = "f1" THEN Config(r, NoCond, NoGroup) ELSE NoConfig]
  /\ attrs = [f \in Fields |-> "none"]
  /\ \E v \in Values : value = [f \in TextFields |-> IF f = "f1" THEN v ELSE ""]
  /\ checked = [f \in CheckFields |-> FALSE]
  /\ validationState = <<>>
  /\ asyncValidationPromises = <<>>
  /\ cache = <<>>
  /\ now = 1
  /\ lastSweep = 1
  /\ calls = [c \in Calls |-> IdleCall]
  /\ queue = <<>>
  /\ syncOpen = FALSE
  /\ epoch = 0
  /\ form = NoForm
  /\ InitHost

NextLang ==
  \/ \E c \in Calls : StartValidateField(c, "f1")
  \/ \E v \in Values : SetValue("f1", v)
  \/ Microtask
  \/ \E c \in Calls : ValidatorResolves(c)
  \/ Frame

SpecLang == InitLang /\ [][NextLang]_vars

----------------------------------------------------------------------------
(* the registered fields whose recorded outcome is invalid *)
RegisteredInvalid ==
  {f \in Fields : /\ fieldRegistry[f].registered
                  /\ MapHas(validationState, f)
                  /\ ~MapGet(validationState, f).isValid}

(* C26: at any time getErrorCount() is the number of registered fields whose
   recorded outcome is invalid, and getErrors() has exactly one entry for
   each of them *)
C26_ErrorQueriesMatchRegistry ==
  /\ getErrorCount(validationState) = Cardinality(RegisteredInvalid)
  /\ DOMAIN getErrors(validationState) = {FieldName(f) : f \in RegisteredInvalid}

(* what holds instead: the queries list the entries of the validation state
   that are invalid, whether their field is still registered or not *)
C26_ErrorQueriesMatchState ==
  /\ DOMAIN getErrors(validationState)
       = {FieldName(f) : f \in {g \in Fields : /\ MapHas(validationState, g)
                                               /\ ~MapGet(validationState, g).isValid}}
  /\ \A f \in Fields :
       FieldName(f) \in DOMAIN getErrors(validationState)
         => getErrors(validationState)[FieldName(f)] = MapGet(validationState, f).message

----------------------------------------------------------------------------
(* The condition "X:checked": field f1 carries data-validate-if="cb:checked",
   cb being the checkbox of the form *)

CheckedCond == <<"cb", "checked">>

InitCond ==
  /\ options = [useNativeValidation |-> FALSE]
  /\ \E r \in {<<"required">>, <<"email">>, <<"required", "email">>} :
       fieldRegistry = [f \in Fields |->
                          IF f = "f1" THEN Config(r, CheckedCond, NoGroup) ELSE NoConfig]
  /\ attrs = [f \in Fields |-> "none"]
  /\ \E v \in Values : value = [f \in TextFields |-> IF f = "f1" THEN v ELSE ""]
  /\ checked \in [CheckFields -> BOOLEAN]
  /\ validationState = <<>>
  /\ asyncValidationPromises = <<>>
  /\ cache = <<>>
  /\ now = 1
  /\ lastSweep = 1
  /\ calls = [c \in Calls |-> IdleCall]
  /\ queue = <<>>
  /\ syncOpen = FALSE
  /\ epoch = 0
  /\ form = NoForm
  /\ InitHost

NextCond ==
  \/ \E c \in Calls : StartValidateField(c, "f1")
  \/ \E v \in Values : SetValue("f1", v)
  \/ Toggle("cb")
  \/ Frame

SpecCond == InitCond /\ [][NextCond]_vars

----------------------------------------------------------------------------
(* call c validated rules "required|email" on the value "" and has ended *)
RequiredEmailOnEmpty(c) ==
  /\ calls[c].pc = "done"
  /\ calls[c].rules = <<"required", "email">>
  /\ calls[c].value = ""
  /\ ~calls[c].superseded

(* C27: for rules "required|email" and value "" the outcome is invalid and
   the message is the "required" message of the instance's current language *)
C27_RequiredMessageLocalized ==
  \A c \in Calls :
    RequiredEmailOnEmpty(c)
      => calls[c].out = "false" /\ calls[c].reported = I18nT("required")

(* what holds instead: the outcome is invalid and the message is the string
   the required validator returns, whatever the language *)
C27_RequiredMessageOfValidator ==
  \A c \in Calls :
    RequiredEmailOnEmpty(c)
      => /\ calls[c].out = "false"
         /\ calls[c].reported = ValidatorResult("required", "")
         /\ calls[c].invoked = {1}

----------------------------------------------------------------------------
(* The lookup of validators: rule lists that name validators of the instance
   registry, of the global registry only, of both, and of neither *)

LookupRuleLists ==
  {<<"nosuch">>, <<"nosuch", "required">>, <<"email">>, <<"blocklist">>,
   <<"required", "nosuch", "email">>, <<"nosuch", "blocklist">>}

InitLookup ==
  /\ options = [useNativeValidation |-> FALSE]
  /\ \E r \in LookupRuleLists :
       fieldRegistry = [f \in Fields |->
                          IF f = "f1" THEN Config(r, NoCond, NoGroup) ELSE NoConfig]
  /\ attrs = [f \in Fields |-> "none"]
  /\ \E v \in Values : value = [f \in TextFields |-> IF f = "f1" THEN v ELSE ""]
  /\ checked = [f \in CheckFields |-> FALSE]
  /\ validationState = <<>>
  /\ asyncValidationPromises = <<>>
  /\ cache = <<>>
  /\ now = 1
  /\ lastSweep = 1
  /\ calls = [c \in Calls |-> IdleCall]
  /\ queue = <<>>
  /\ syncOpen = FALSE
  /\ epoch = 0
  /\ form = NoForm
  /\ InitHost

NextLookup ==
  \/ \E c \in Calls : StartValidateField(c, "f1")
  \/ \E v \in Values : SetValue("f1", v)
  \/ Microtask
  \/ Frame

SpecLookup == InitLookup /\ [][NextLookup]_vars

----------------------------------------------------------------------------
(* call c has ended on a field declared with data-validate-if="cb:checked" *)
CheckedCondCall(c) ==
  /\ Settled(c)
  /\ fieldRegistry[calls[c].field].registered
  /\ fieldRegistry[calls[c].field].validateIf = CheckedCond

(* C28: a field declared with data-validate-if="X:checked" has its rules
   enforced exactly when the checkbox X is checked, and is skipped, valid,
   when X is not checked *)
C28_CheckedConditionEnforced ==
  \A c \in Calls :
    CheckedCondCall(c) =>
      LET cl == calls[c]
      IN IF cl.condValue = BoolString(TRUE)
           THEN /\ 1 \in cl.reached
                /\ FirstFailure(cl.rules, cl.value, 1) # 0 => cl.out = "false"
           ELSE cl.out = "true" /\ cl.invoked = {}

(* what holds instead: the checkbox's value is the string "true" or "false",
   never "checked", so the field is skipped whatever the checkbox's state *)
C28_CheckedConditionNeverMet ==
  \A c \in Calls :
    CheckedCondCall(c) =>
      /\ calls[c].condValue \in {BoolString(TRUE), BoolString(FALSE)}
      /\ calls[c].out = "true" /\ calls[c].invoked = {} /\ calls[c].reached = {}

----------------------------------------------------------------------------
(* The built-in validators remote and unique and their endpoint: field f1
   carries one of the two rules, alone or before a synchronous rule *)

InitRemote ==
  /\ options = [useNativeValidation |-> FALSE]
  /\ \E r \in {<<"remote">>, <<"unique">>, <<"remote", "email">>} :
       fieldRegistry = [f \in Fields |->
                          IF f = "f1" THEN Config(r, NoCond, NoGroup) ELSE NoConfig]
  /\ attrs = [f \in Fields |-> "none"]
  /\ \E v \in Values : value = [f \in TextFields |-> IF f = "f1" THEN v ELSE ""]
  /\ checked = [f \in CheckFields |-> FALSE]
  /\ validationState = <<>>
  /\ asyncValidationPromises = <<>>
  /\ cache = <<>>
  /\ now = 1
  /\ lastSweep = 1
  /\ calls = [c \in Calls |-> IdleCall]
  /\ queue = <<>>
  /\ syncOpen = FALSE
  /\ epoch = 0
  /\ form = NoForm
  /\ InitHost

NextRemote ==
  \/ \E c \in Calls : StartValidateField(c, "f1")
  \/ \E v \in Values : SetValue("f1", v)
  \/ Microtask
  \/ \E c \in Calls : EndpointResponds(c)
  \/ Frame

SpecRemote == InitRemote /\ [][NextRemote]_vars

----------------------------------------------------------------------------
(* what the synchronous validator of the instance registry under name r
   answers for value v *)
InstanceResult(r, v) ==
  CASE r = "required" -> IF v = "" THEN "This field is required" ELSE "true"
    [] r = "email"    -> IF v = "bad" THEN "Please enter a valid email address" ELSE "true"
    [] OTHER          -> "true"

(* the result rule r must give: the instance's validator, else the global
   one, else true *)
LookupResult(r, v) ==
  IF r \in InstanceValidators THEN InstanceResult(r, v)
  ELSE IF r \in GlobalValidators THEN GlobalResult(r, v)
  ELSE "true"

RECURSIVE FirstFailing(_, _, _)
(* the first rule from index i on whose due result is a failure; 0 if none *)
FirstFailing(rules, v, i) ==
  IF i > Len(rules) THEN 0
  ELSE IF LookupResult(rules[i], v) # "true" THEN i
  ELSE FirstFailing(rules, v, i + 1)

(* C29: each rule's validator is the instance registry's, the global
   registry's only if the instance has none; a rule found in neither gives
   true without any validator being invoked, so it never makes the field
   invalid and never keeps a later rule from running *)
C29_LookupOrder ==
  \A c \in Calls :
    LET cl == calls[c]
        k == FirstFailing(cl.rules, cl.value, 1)
    IN (Settled(c) /\ cl.rules \in LookupRuleLists) =>
         /\ \A n \in 1..Len(cl.outs) : cl.outs[n] = LookupResult(cl.rules[n], cl.value)
         /\ \A n \in cl.invoked : HasValidator(cl.rules[n])
         /\ \A n \in cl.reached : ~HasValidator(cl.rules[n]) => n \notin cl.invoked
         /\ IF k = 0
              THEN cl.out = "true" /\ cl.reached = 1..Len(cl.rules)
              ELSE /\ cl.out = "false" /\ cl.reached = 1..k
                   /\ cl.reported = LookupResult(cl.rules[k], cl.value)

(* a pass over "required|nosuch|email" went past the unknown rule and failed
   on the instance's email validator *)
C29_Witness ==
  \E c \in Calls :
    /\ Settled(c)
    /\ calls[c].rules = <<"required", "nosuch", "email">>
    /\ calls[c].value = "bad"
    /\ calls[c].reached = {1, 2, 3}
    /\ calls[c].invoked = {1, 3}
    /\ calls[c].reported = "Please enter a valid email address"

----------------------------------------------------------------------------
(* parseValidationRules on the text of a data-validate attribute.  A text is
   a sequence of characters; a missing attribute is NoAttr.  The alphabet
   holds a letter, the two separators and the space. *)

Chars == {"a", ":", "|", " "}

RECURSIVE Texts(_)
Texts(n) ==
  IF n = 0 THEN {<<>>}
  ELSE Texts(n - 1) \cup {Append(t, ch) : t \in {u \in Texts(n - 1) : Len(u) = n - 1},
                                          ch \in Chars}

NoAttr == [present |-> FALSE, text |-> <<>>]

Attributes == {NoAttr} \cup {[present |-> TRUE, text |-> t] : t \in Texts(MaxLen)}

(* the JavaScript value null of params, and a string value of it *)
Null == [null |-> TRUE, text |-> <<>>]
String(t) == [null |-> FALSE, text |-> t]

RECURSIVE split(_, _)
(* String.prototype.split(sep) for a separator of one character *)
split(t, sep) ==
  IF \A n \in 1..Len(t) : t[n] # sep THEN <<t>>
  ELSE LET i == CHOOSE n \in 1..Len(t) : t[n] = sep /\ \A m \in 1..n - 1 : t[m] # sep
       IN <<SubSeq(t, 1, i - 1)>> \o split(SubSeq(t, i + 1, Len(t)), sep)

RECURSIVE join(_, _)
(* Array.prototype.join(sep) *)
join(parts, sep) ==
  IF parts = <<>> THEN <<>>
  ELSE IF Len(parts) = 1 THEN parts[1]
  ELSE parts[1] \o <<sep>> \o join(Tail(parts), sep)

RECURSIVE trim(_)
(* String.prototype.trim *)
trim(t) ==
  IF t = <<>> THEN t
  ELSE IF Head(t) = " " THEN trim(Tail(t))
  ELSE IF t[Len(t)] = " " THEN trim(SubSeq(t, 1, Len(t) - 1))
  ELSE t

parseValidationRulesFlat(a) ==
  IF ~a.present \/ a.text = <<>> THEN <<>>
  ELSE LET rules == split(a.text, "|")
       IN [n \in 1..Len(rules) |->
             LET parts == split(rules[n], ":")
             IN [name |-> trim(parts[1]),
                 params |-> IF Len(parts) > 1 /\ parts[2] # <<>>
                              THEN String(trim(parts[2])) ELSE Null]]

(* parseValidationRules(rulesString) *)
parseValidationRules(a) ==
  IF ~a.present \/ a.text = <<>> THEN <<>>
  ELSE LET rules == split(a.text, "|")
       IN [n \in 1..Len(rules) |->
             LET parts == split(rules[n], ":")
                 name == parts[1]
                 paramParts == Tail(parts)
                 params == IF Len(paramParts) > 0 THEN String(join(paramParts, ":"))
                                                  ELSE Null
             IN [name |-> trim(name),
                 params |-> IF ~params.null /\ params.text # <<>>
                              THEN String(trim(params.text)) ELSE Null]]

(* a script writes the data-validate attribute of field f, not yet in the form *)
WriteAttribute(f) ==
  /\ CanRunScript
  /\ ~fieldRegistry[f].registered
  /\ \E a \in Attributes :
       /\ a # tree.rules[f]
       /\ tree' = [tree EXCEPT !.rules[f] = a]
  /\ UNCHANGED <<options, fieldRegistry, attrs, value, checked, validationState,
                 asyncValidationPromises, cache, now, lastSweep, calls, queue,
                 syncOpen, epoch, form, isDestroyed, instances, submit, timers,
                 viewVars>>

(* attachField(f): parseFieldConfig reads the attribute and parses it *)
ParseAttribute(f) ==
  /\ CanRunTask
  /\ ~fieldRegistry[f].registered
  /\ fieldRegistry' = [fieldRegistry EXCEPT
                         ![f] = [ParsedConfig EXCEPT
                                   !.rules = parseValidationRules(tree.rules[f])]]
  /\ tree' = [tree EXCEPT !.inForm = @ \cup {f}, !.validate = @ \cup {f},
                         !.containers[f] = createErrorContainer(@, tree.errorTarget[f])]
  /\ UNCHANGED <<options, attrs, value, checked, validationState,
                 asyncValidationPromises, cache, now, lastSweep, calls, queue,
                 syncOpen, epoch, form, isDestroyed, instances, submit, timers,
                 viewVars>>

(* a form without validated fields; field f1, outside it, carries any
   attribute text *)
InitParse ==
  /\ options = [useNativeValidation |-> FALSE]
  /\ fieldRegistry = [f \in Fields |-> NoConfig]
  /\ attrs = [f \in Fields |-> "none"]
  /\ value = [f \in TextFields |-> ""]
  /\ checked = [f \in CheckFields |-> FALSE]
  /\ validationState = <<>>
  /\ asyncValidationPromises = <<>>
  /\ cache = <<>>
  /\ now = 1
  /\ lastSweep = 1
  /\ calls = [c \in Calls |-> IdleCall]
  /\ queue = <<>>
  /\ syncOpen = FALSE
  /\ epoch = 0
  /\ form = NoForm
  /\ isDestroyed = FALSE
  /\ instances = OneInstance
  /\ dom = NoDom
  /\ events = NoEvents
  /\ submit = NoSubmit
  /\ timers = attachEventListeners(fieldRegistry)
  /\ tree = [TreeOf(fieldRegistry) EXCEPT !.rules = [f \in Fields |-> NoAttr]]

NextParse ==
  \/ WriteAttribute("f1")
  \/ ParseAttribute("f1")

SpecParse == InitParse /\ [][NextParse]_vars

----------------------------------------------------------------------------
(* the transport errors: the request failed, the status was not 2xx, the
   body could not be parsed *)
TransportErrors == {"networkError", "http500", "badJson"}

(* C30: inside remote and unique every transport error is caught and turned
   into true: the validator's promise is not rejected, the rule passes, and
   the field is not made invalid by it *)
C30_TransportErrorsPass ==
  \A c \in Calls :
    LET cl == calls[c]
    IN cl.response \in TransportErrors =>
         /\ cl.settle = "value" /\ cl.vres = "true" /\ cl.err = NoError
         /\ cl.threw = {}
         /\ \A n \in 1..Len(cl.outs) :
              cl.rules[n] \in {"remote", "unique"} => cl.outs[n] = "true"
         /\ (cl.pc = "done" /\ cl.out = "false")
              => /\ Len(cl.outs) = 2
                 /\ cl.reported = ValidatorResult(cl.rules[2], cl.value)

(* a validation of a non-empty value by remote or unique alone that ended
   valid after a transport error *)
C30_Witness ==
  \E c \in Calls :
    /\ calls[c].pc = "done" /\ calls[c].out = "true"
    /\ calls[c].value # ""
    /\ Len(calls[c].rules) = 1
    /\ calls[c].response \in TransportErrors

----------------------------------------------------------------------------
(* the position of the first character ch of text t, 0 if there is none *)
FirstIndex(t, ch) ==
  IF \A n \in 1..Len(t) : t[n] # ch THEN 0
  ELSE CHOOSE n \in 1..Len(t) : t[n] = ch /\ \A m \in 1..n - 1 : t[m] # ch

RECURSIVE Tokens(_)
(* the maximal runs of text t between the characters "|", in order *)
Tokens(t) ==
  LET i == FirstIndex(t, "|")
  IN IF i = 0 THEN <<t>>
     ELSE <<SubSeq(t, 1, i - 1)>> \o Tokens(SubSeq(t, i + 1, Len(t)))

(* a token cut at its first ":" only; the parameter is kept as written when
   raw is TRUE, and with the spaces around name and parameter removed, an
   empty parameter counting as absent, when raw is FALSE *)
CutAtFirstColon(tok, raw) ==
  LET i == FirstIndex(tok, ":")
      name == IF i = 0 THEN tok ELSE SubSeq(tok, 1, i - 1)
      rest == SubSeq(tok, i + 1, Len(tok))
  IN IF raw
       THEN [name |-> name, params |-> IF i = 0 THEN Null ELSE String(rest)]
       ELSE [name |-> trim(name),
             params |-> IF i = 0 \/ rest = <<>> THEN Null ELSE String(trim(rest))]

Parsed(a, raw) ==
  IF ~a.present \/ a.text = <<>> THEN <<>>
  ELSE [n \in 1..Len(Tokens(a.text)) |-> CutAtFirstColon(Tokens(a.text)[n], raw)]

(* C31 as stated: the rule list parsed from the attribute is its tokens in
   order, each cut at its first ":" into the name and the raw parameter
   string, null when absent; an empty or missing attribute gives <<>> *)
C31_ParseRaw ==
  fieldRegistry["f1"].registered
    => fieldRegistry["f1"].rules = Parsed(tree.rules["f1"], TRUE)

(* C31 amended: the same, with the name and the parameter trimmed of the
   spaces around them and an empty parameter given as null *)
C31_ParseTrimmed ==
  fieldRegistry["f1"].registered
    => fieldRegistry["f1"].rules = Parsed(tree.rules["f1"], FALSE)

(* a parsed attribute whose second token has a parameter holding a ":" *)
C31_Witness ==
  /\ fieldRegistry["f1"].registered
  /\ Len(fieldRegistry["f1"].rules) = 2
  /\ ~fieldRegistry["f1"].rules[2].params.null
  /\ \E n \in 1..Len(fieldRegistry["f1"].rules[2].params.text) :
       fieldRegistry["f1"].rules[2].params.text[n] = ":"

----------------------------------------------------------------------------
(* The throttled mutation handler in time.  Field f1 is registered; f2 is a
   node of the page without data-validate that scripts move into the form and
   out of it.  Every delivery of records restarts the timer of ThrottleDelay
   ticks; the batch is processed when the timer runs out. *)

(* the handler throttleMutations returns: the records join pendingMutations
   and the timer is restarted.  The model keeps the first MaxMutations
   records of a batch; the records it does not keep are of the node f2, which
   processing passes over *)
throttleMutations(t, type, f) ==
  [t EXCEPT !.pending = IF Len(@) < MaxMutations THEN Append(@, [type |-> type, f |-> f])
                                                 ELSE @]

(* a script sets or removes data-no-validate on f1 *)
ChangeField ==
  /\ CanRunScript
  /\ Len(tree.pending) < MaxMutations
  /\ tree' = throttleMutations(
               [tree EXCEPT !.noValidate = IF "f1" \in @ THEN @ \ {"f1"} ELSE @ \cup {"f1"}],
               "attr", "f1")
  /\ timers' = [timers EXCEPT !.throttle = ThrottleDelay]
  /\ UNCHANGED <<options, fieldRegistry, attrs, value, checked, validationState,
                 asyncValidationPromises, cache, now, lastSweep, calls, queue,
                 syncOpen, epoch, form, isDestroyed, instances, submit, viewVars>>

(* a script moves the node f2 into the form or out of it *)
Churn ==
  /\ CanRunScript
  /\ tree' = IF "f2" \in tree.inForm
               THEN throttleMutations([tree EXCEPT !.inForm = @ \ {"f2"}], "removed", "f2")
               ELSE throttleMutations([tree EXCEPT !.inForm = @ \cup {"f2"}], "added", "f2")
  /\ timers' = [timers EXCEPT !.throttle = ThrottleDelay]
  /\ UNCHANGED <<options, fieldRegistry, attrs, value, checked, validationState,
                 asyncValidationPromises, cache, now, lastSweep, calls, queue,
                 syncOpen, epoch, form, isDestroyed, instances, submit, viewVars>>

(* time passes on the armed timer *)
TickThrottle ==
  /\ CanRunTask
  /\ tree.pending # <<>>
  /\ timers.throttle > 0
  /\ timers' = [timers EXCEPT !.throttle = @ - 1]
  /\ UNCHANGED <<options, fieldRegistry, attrs, value, checked, validationState,
                 asyncValidationPromises, cache, now, lastSweep, calls, queue,
                 syncOpen, epoch, form, isDestroyed, instances, submit, tree, viewVars>>

(* the timer runs out: the callback hands the batch to processMutations *)
ThrottleFires ==
  /\ timers.throttle = 0
  /\ ProcessMutations

InitChurn ==
  /\ options = [useNativeValidation |-> FALSE]
  /\ fieldRegistry = [f \in Fields |-> IF f = "f1" THEN ParsedConfig ELSE NoConfig]
  /\ attrs = [f \in Fields |-> "none"]
  /\ value = [f \in TextFields |-> ""]
  /\ checked = [f \in CheckFields |-> FALSE]
  /\ validationState = <<>>
  /\ asyncValidationPromises = <<>>
  /\ cache = <<>>
  /\ now = 1
  /\ lastSweep = 1
  /\ calls = [c \in Calls |-> IdleCall]
  /\ queue = <<>>
  /\ syncOpen = FALSE
  /\ epoch = 0
  /\ form = NoForm
  /\ isDestroyed = FALSE
  /\ instances = OneInstance
  /\ dom = NoDom
  /\ events = NoEvents
  /\ submit = NoSubmit
  /\ timers = attachEventListeners(fieldRegistry)
  /\ tree = [TreeOf(fieldRegistry) EXCEPT !.validate = {"f1"}]

NextChurn ==
  \/ ChangeField
  \/ Churn
  \/ TickThrottle
  \/ ThrottleFires
  \/ Frame

(* time passes, due timers fire and requested frames come *)
SpecChurn ==
  /\ InitChurn /\ [][NextChurn]_vars
  /\ WF_vars(TickThrottle) /\ WF_vars(ThrottleFires) /\ WF_vars(Frame)

----------------------------------------------------------------------------
(* call c waits for, or has just got, the answer of an asynchronous validator
   it invoked, and no later invocation for the same key was started since *)
NewestInvocation(c) ==
  /\ calls[c].i > 0
  /\ isAsyncValidator(calls[c].rules[calls[c].i])
  /\ calls[c].i \in calls[c].invoked
  /\ ~calls[c].superseded

(* C32: an invocation that no newer invocation of its key has superseded keeps
   its in-flight entry until it settles, whatever the settlement of an earlier
   invocation does, and when it resolves its result is trusted: cached and
   used as the rule outcome *)
C32_NewestInvocationTrusted ==
  \A c \in Calls :
    /\ (NewestInvocation(c) /\ calls[c].pc \in {"pending", "settled"}) => OwnsEntry(c)
    /\ (NewestInvocation(c) /\ calls[c].pc = "ret" /\ calls[c].settle = "value"
          /\ calls[c].i \notin calls[c].hits) =>
         calls[c].i \in calls[c].trusted /\ calls[c].res = calls[c].vres

----------------------------------------------------------------------------
(* C33: every mutation record delivered to the throttled handler is
   eventually handed to processMutations, also while further records keep
   being delivered *)
C33_RecordsEventuallyProcessed == (tree.pending # <<>>) ~> (tree.pending = <<>>)

----------------------------------------------------------------------------
(* The engine on two registered text fields with one asynchronous rule each,
   whose name attributes differ or are the same (two inputs of one name, as
   in a list of e-mail addresses) *)

NameMaps == {[f \in Fields |-> f],
             [f \in Fields |-> IF f \in TextFields THEN "email" ELSE f]}

InitNames ==
  /\ options = [useNativeValidation |-> FALSE]
  /\ \E r \in AsyncRuleLists :
       fieldRegistry = [f \in Fields |->
                          IF f \in TextFields THEN Config(r, NoCond, NoGroup) ELSE NoConfig]
  /\ attrs = [f \in Fields |-> "none"]
  /\ value = [f \in TextFields |-> IF f = "f1" THEN "ok" ELSE "bad"]
  /\ checked = [f \in CheckFields |-> FALSE]
  /\ validationState = <<>>
  /\ asyncValidationPromises = <<>>
  /\ cache = <<>>
  /\ now = 1
  /\ lastSweep = 1
  /\ calls = [c \in Calls |-> IdleCall]
  /\ queue = <<>>
  /\ syncOpen = FALSE
  /\ epoch = 0
  /\ form = NoForm
  /\ isDestroyed = FALSE
  /\ instances = OneInstance
  /\ dom = NoDom
  /\ events = NoEvents
  /\ submit = NoSubmit
  /\ timers = attachEventListeners(fieldRegistry)
  /\ \E names \in NameMaps : tree = [TreeOf(fieldRegistry) EXCEPT !.name = names]

NextNames ==
  \/ \E c \in Calls, f \in TextFields : StartValidateField(c, f)
  \/ Microtask
  \/ \E c \in Calls : ValidatorResolves(c)
  \/ \E c \in Calls : ValidatorAborts(c)

SpecNames == InitNames /\ [][NextNames]_vars

----------------------------------------------------------------------------
(* the batch holds the clearing of field f, which has left the registry *)
DetachedClearWaits(f) ==
  /\ ~fieldRegistry[f].registered
  /\ \E n \in 1..Len(dom.batched) :
       dom.batched[n].op = "clearError" /\ dom.batched[n].f = f

(* C34: the frame that flushes the clearing scheduled for a detached field
   leaves the field without error text, without the error class and not
   marked aria-invalid *)
C34_DetachedFieldCleared ==
  [][\A f \in TextFields :
       (FrameStep /\ DetachedClearWaits(f)) =>
         /\ dom'.text[f] = ""
         /\ "error" \notin dom'.classes[f]
         /\ dom'.aria[f] # "true"]_vars

----------------------------------------------------------------------------
(* C35: an invocation is superseded (its handle aborted, its in-flight entry
   replaced, its result dropped) only by a later invocation for the same
   field, never by the validation of another field *)
C35_FieldsDoNotCancelEachOther ==
  \A c \in Calls :
    calls[c].superseded => calls[calls[c].supBy].field = calls[c].field

----------------------------------------------------------------------------
(* the step is a turn of the microtask queue that resumes validateField
   call c *)
ResumesCall(c) ==
  /\ queue # <<>>
  /\ Head(queue).t = "call" /\ Head(queue).c = c
  /\ (queue' = <<>> \/ Head(queue') # Head(queue))

(* C36: a validateField call that was started before reset() and goes on
   after it writes no validation-state entry, changes nothing of the
   displayed state and dispatches no valid or invalid event *)
C36_StaleCallSilentAfterReset ==
  [][\A c \in DOMAIN calls :
       (ResumesCall(c) /\ calls[c].epoch0 < epoch /\ ~isDestroyed) =>
         /\ validationState' = validationState
         /\ dom' = dom
         /\ events' = events]_vars

----------------------------------------------------------------------------
(* The observed form and destroy(): f1 is registered, f2 carries
   data-validate outside the form; scripts change the tree, the instance is
   destroyed at any moment *)

NextTeardown ==
  \/ ChangeTree
  \/ ProcessMutations
  \/ Destroy
  \/ Frame

SpecTeardown == InitBlur /\ [][NextTeardown]_vars

----------------------------------------------------------------------------
(* C37: once destroy() has returned, no step of the instance writes a
   validation-state entry or dispatches a formguard event: the map stays
   empty and the event counts stay as they are *)
C37_DestroyedInstanceSilent ==
  [][isDestroyed => (validationState' = <<>> /\ events' = events)]_vars

----------------------------------------------------------------------------
(* C38: once the instance is destroyed the field registry of its DOM manager
   stays empty and no error container is added to the document *)
C38_DestroyedAdapterIdle ==
  [][isDestroyed =>
       /\ \A f \in Fields : ~fieldRegistry'[f].registered
       /\ \A f \in Fields : tree'.containers[f] <= tree.containers[f]]_vars

----------------------------------------------------------------------------
(* C39: whatever other instances are destroyed, the live region a live
   instance holds is in the document, and no announcement is written to an
   element outside it *)
C39_LiveRegionSurvivesOthers ==
  /\ \A i \in instances.live : instances.liveRegion[i] # "detached"
  /\ ~instances.lost

----------------------------------------------------------------------------
(* what one batched update writes when the frame callback runs it *)
Written(d, u, reg) ==
  IF u.op = "fieldsChanged" \/ ~reg[u.f].registered THEN d
  ELSE IF u.op = "displayError"
    THEN [d EXCEPT !.text[u.f] = IF u.message = "null" THEN "" ELSE u.message,
                   !.classes[u.f] = (@ \ {"valid"}) \cup {"error"},
                   !.aria[u.f] = "true", !.isValid[u.f] = "false"]
  ELSE IF u.op = "clearError"
    THEN [d EXCEPT !.text[u.f] = "", !.classes[u.f] = @ \ {"error"},
                   !.aria[u.f] = "false", !.isValid[u.f] = "true"]
  ELSE [d EXCEPT !.classes[u.f] = @ \cup {"valid"}, !.isValid[u.f] = "true"]

(* the updates an update schedules while it runs *)
SchedulesMore(u, reg) ==
  IF u.op = "markValid" /\ reg[u.f].registered
    THEN <<[op |-> "clearError", f |-> u.f, message |-> ""]>>
    ELSE <<>>

RECURSIVE Drain(_, _, _)
(* the updates of todo run once each, first to last, those scheduled
   meanwhile after them *)
Drain(d, todo, reg) ==
  IF todo = <<>> THEN d
  ELSE Drain(Written(d, Head(todo), reg), Tail(todo) \o SchedulesMore(Head(todo), reg), reg)

(* C40: the frame runs every update of the batch exactly once, in the order
   of scheduling, with the updates scheduled during the flush, and leaves the
   batch empty; updates write nothing before their frame; and a non-empty
   batch always has its frame requested *)
C40_UpdatesRunOnceInOrder ==
  [][/\ FrameStep =>
          dom' = [Drain(dom, dom.batched, fieldRegistry) EXCEPT
                    !.batched = <<>>, !.scheduled = FALSE, !.early = {}]
     /\ ~FrameStep => dom'.text = dom.text
     /\ dom'.batched # <<>> => dom'.scheduled]_vars

(* a frame has run markValid and the clearError it scheduled: the field has
   the valid class, no error class and no frame is requested *)
C40_Witness ==
  /\ ~isDestroyed
  /\ dom.batched = <<>> /\ ~dom.scheduled
  /\ dom.classes["f1"] = {"valid"}
  /\ dom.isValid["f1"] = "true"
  /\ dom.aria["f1"] = "false"

====
